---- MODULE Spec2Model ----
(***************************************************************************)
(* A model of the fezi client: APIClient (URL building, header merging,    *)
(* body serialisation, the fetch with its timeout timer) and Endpoint      *)
(* (input validation, the request, output validation, the error record).   *)
(*                                                                         *)
(* Text that the code takes apart (URLs, paths, query strings) is a        *)
(* sequence of one-character strings.  JavaScript values that the code     *)
(* only passes along (bodies, decoded payloads) are tokens: strings that   *)
(* spell the literal.  An optional field is a sequence of length at most   *)
(* one: <<>> is undefined, <<x>> is the value x.                           *)
(***************************************************************************)
EXTENDS Integers, Sequences, FiniteSets, TLC

None == <<>>
Some(x) == <<x>>
IsSet(m) == Len(m) > 0
Get(m) == m[1]

(***************************************************************************)
(* Bounds of the model.                                                    *)
(***************************************************************************)
\* number of Endpoint.execute calls that may be in flight together
MaxCalls == 1
\* longest params mapping handed to execute in the URL specification
MaxParams == 3
\* entries of a params mapping given to getKey
MaxKeyParams == 2

(***************************************************************************)
(* Program constants.                                                      *)
(***************************************************************************)
DEFAULT_TIMEOUT == 10000
DEFAULT_CONTENT_TYPE == "application/json"
DEFAULT_HTTP_METHOD == "GET"
\* the status Endpoint.execute reports for an error that carries none
SENTINEL_STATUS == 500

(***************************************************************************)
(* JavaScript values as tokens.                                            *)
(***************************************************************************)
VUndefined == "undefined"
VNull == "null"
VZero == "0"
VFalse == "false"
VEmptyString == "''"
VNewUser == "{name:'New User'}"
VNewUserTrimmed == "{name:'New User',role:'user'}"
VBadUser == "{email:'invalid@example.com'}"
VUser == "{id:1,name:'Test User'}"
VNotFound == "{error:'Not found'}"
VCreateFailed == "{error:'Failed to create user'}"
VFunction == "function(){}"

\* the values JavaScript's && and || treat as false
Falsy == {VUndefined, VNull, VZero, VFalse, VEmptyString}
Truthy(v) == v \notin Falsy

\* JSON.stringify on the values the model sends; it gives undefined for
\* undefined and for a function
JsonStringify(v) ==
  CASE v = VNewUser -> "{\"name\":\"New User\"}"
    [] v = VNewUserTrimmed -> "{\"name\":\"New User\",\"role\":\"user\"}"
    [] v = VBadUser -> "{\"email\":\"invalid@example.com\"}"
    [] v = VUser -> "{\"id\":1,\"name\":\"Test User\"}"
    [] v = VNotFound -> "{\"error\":\"Not found\"}"
    [] v = VZero -> "0"
    [] v = VFalse -> "false"
    [] v = VNull -> "null"
    [] v = VEmptyString -> "\"\""
    [] OTHER -> "undefined"

\* the response bodies the model's transport delivers
BodyUser == "{\"id\":1,\"name\":\"Test User\"}"
BodyNewUser == "{\"name\":\"New User\"}"
BodyNotFound == "{\"error\":\"Not found\"}"
BodyCreateFailed == "{\"error\":\"Failed to create user\"}"
BodyMalformed == "<html>Bad Gateway</html>"
BodyPlain == "Internal Server Error"

\* Response.json(): JSON.parse of the body text, a SyntaxError on other text
JsonParses(text) ==
  text \in {BodyUser, BodyNewUser, BodyNotFound, BodyCreateFailed}
JsonParse(text) ==
  CASE text = BodyUser -> VUser
    [] text = BodyNewUser -> VNewUser
    [] text = BodyNotFound -> VNotFound
    [] text = BodyCreateFailed -> VCreateFailed
    [] OTHER -> VUndefined

(***************************************************************************)
(* Errors.  One record shape for whatever is thrown: a plain Error, a      *)
(* FeziError (which may carry the status of a response), or a value that   *)
(* is no Error at all.                                                     *)
(***************************************************************************)
NoUrl == <<>>

PlainError(msg) ==
  [kind |-> "Error", message |-> msg, url |-> NoUrl, options |-> "none",
   hasStatus |-> FALSE, status |-> 0]

ThrownValue(text) ==
  [kind |-> "value", message |-> text, url |-> NoUrl, options |-> "none",
   hasStatus |-> FALSE, status |-> 0]

\* new FeziError(message, url, options): no response given, so no status
FeziError(msg, url, options) ==
  [kind |-> "FeziError", message |-> msg, url |-> url, options |-> options,
   hasStatus |-> FALSE, status |-> 0]

\* new FeziError(message, url, options, response): status copied from it
FeziErrorWithResponse(msg, url, options, status) ==
  [kind |-> "FeziError", message |-> msg, url |-> url, options |-> options,
   hasStatus |-> TRUE, status |-> status]

\* error instanceof Error ? error.message : String(error)
MessageOf(e) == e.message

IsFeziError(e) == e.kind = "FeziError"

NullError ==
  [kind |-> "null", message |-> "", url |-> NoUrl, options |-> "none",
   hasStatus |-> FALSE, status |-> 0]

(***************************************************************************)
(* Text.                                                                   *)
(***************************************************************************)
startsWith(s, ch) == Len(s) > 0 /\ s[1] = ch
endsWith(s, ch) == Len(s) > 0 /\ s[Len(s)] = ch
\* s.slice(0, -1)
sliceLast(s) == SubSeq(s, 1, Len(s) - 1)

Digit == <<"0", "1", "2", "3", "4", "5", "6", "7", "8", "9">>

RECURSIVE NumberToString(_)
NumberToString(n) ==
  IF n < 10 THEN <<Digit[n + 1]>>
  ELSE NumberToString(n \div 10) \o <<Digit[(n % 10) + 1]>>

\* The values a params mapping may hold: string | number | boolean | null |
\* undefined, in one record shape.
PNumber(n) == [t |-> "number", n |-> n, s |-> <<>>]
PBoolean(b) == [t |-> "boolean", n |-> IF b THEN 1 ELSE 0, s |-> <<>>]
PString(s) == [t |-> "string", n |-> 0, s |-> s]
PNull == [t |-> "null", n |-> 0, s |-> <<>>]
PUndefined == [t |-> "undefined", n |-> 0, s |-> <<>>]

\* String(value)
String(v) ==
  CASE v.t = "number" -> NumberToString(v.n)
    [] v.t = "boolean" ->
         IF v.n = 1 THEN <<"t", "r", "u", "e">> ELSE <<"f", "a", "l", "s", "e">>
    [] v.t = "string" -> v.s
    [] v.t = "null" -> <<"n", "u", "l", "l">>
    [] OTHER -> <<"u", "n", "d", "e", "f", "i", "n", "e", "d">>

\* URLSearchParams: the application/x-www-form-urlencoded serializer.  A
\* letter, a digit and * - . _ stay; a space becomes +; any other character
\* is percent-encoded.
urlencodeChar(ch) ==
  CASE ch = " " -> <<"+">>
    [] ch = "&" -> <<"%", "2", "6">>
    [] ch = "=" -> <<"%", "3", "D">>
    [] ch = "+" -> <<"%", "2", "B">>
    [] ch = "%" -> <<"%", "2", "5">>
    [] ch = "/" -> <<"%", "2", "F">>
    [] ch = "?" -> <<"%", "3", "F">>
    [] OTHER -> <<ch>>

RECURSIVE urlencode(_)
urlencode(s) ==
  IF s = <<>> THEN <<>> ELSE urlencodeChar(Head(s)) \o urlencode(Tail(s))

\* searchParams.toString() of the pairs appended, in the order appended
RECURSIVE URLSearchParamsToString(_)
URLSearchParamsToString(pairs) ==
  IF pairs = <<>> THEN <<>>
  ELSE LET one == urlencode(pairs[1].key) \o <<"=">> \o urlencode(pairs[1].value)
       IN IF Len(pairs) = 1 THEN one
          ELSE one \o <<"&">> \o URLSearchParamsToString(Tail(pairs))

\* appendParams with a truthiness test in place of the two comparisons.
RECURSIVE appendParamsTruthy(_)
appendParamsTruthy(entries) ==
  IF entries = <<>> THEN <<>>
  ELSE LET e == Head(entries)
           rest == appendParamsTruthy(Tail(entries))
           falsy == \/ e.value.t \in {"null", "undefined"}
                    \/ e.value.t = "number" /\ e.value.n = 0
                    \/ e.value.t = "boolean" /\ e.value.n = 0
                    \/ e.value.t = "string" /\ e.value.s = <<>>
       IN IF ~falsy
          THEN <<[key |-> e.key, value |-> String(e.value)]>> \o rest
          ELSE rest

\* The loop over Object.entries(config.params): append String(value) for
\* every value that is neither null nor undefined.
RECURSIVE appendParams(_)
appendParams(entries) ==
  IF entries = <<>> THEN <<>>
  ELSE LET e == Head(entries)
           rest == appendParams(Tail(entries))
       IN IF e.value.t # "null" /\ e.value.t # "undefined"
          THEN <<[key |-> e.key, value |-> String(e.value)]>> \o rest
          ELSE rest

(***************************************************************************)
(* APIClient.                                                              *)
(*   options: [url, basePath, headers, timeout]; headers is                *)
(*   [kind |-> "absent" | "object" | "function", value |-> mapping].       *)
(*   config:  [path, method, headers, timeout, body, params], each         *)
(*   optional but body, which is a value token.                            *)
(***************************************************************************)
NoHeaders == [k \in {} |-> ""]

\* {...a, ...b}
spread(a, b) ==
  [k \in DOMAIN a \cup DOMAIN b |-> IF k \in DOMAIN b THEN b[k] ELSE a[k]]

\* What one invocation of the default-headers producer does.
Produced(h) == [threw |-> FALSE, value |-> h, error |-> NullError]
ProducerThrew(e) == [threw |-> TRUE, value |-> NoHeaders, error |-> e]

\* constructor: this.options = {timeout: DEFAULT_TIMEOUT, ...options}
APIClientNew(url, basePath, headers, timeout) ==
  [url |-> url, basePath |-> basePath, headers |-> headers,
   timeout |-> IF IsSet(timeout) THEN Get(timeout) ELSE DEFAULT_TIMEOUT]

\* buildUrl that appends the path as it was given.
buildUrlRawPath(options, config) ==
  LET normalizedUrl ==
        IF endsWith(options.url, "/") THEN sliceLast(options.url) ELSE options.url
      withBasePath ==
        IF options.basePath # <<>>
        THEN normalizedUrl \o
             (IF startsWith(options.basePath, "/") THEN options.basePath
              ELSE <<"/">> \o options.basePath)
        ELSE normalizedUrl
      withPath ==
        IF IsSet(config.path) /\ Get(config.path) # <<>>
        THEN withBasePath \o Get(config.path)
        ELSE withBasePath
      queryString ==
        IF IsSet(config.params) /\ Len(Get(config.params)) > 0
        THEN URLSearchParamsToString(appendParams(Get(config.params)))
        ELSE <<>>
  IN IF queryString # <<>> THEN withPath \o <<"?">> \o queryString ELSE withPath

buildUrl(options, config) ==
  LET normalizedUrl ==
        IF endsWith(options.url, "/") THEN sliceLast(options.url) ELSE options.url
      withBasePath ==
        IF options.basePath # <<>>
        THEN normalizedUrl \o
             (IF startsWith(options.basePath, "/") THEN options.basePath
              ELSE <<"/">> \o options.basePath)
        ELSE normalizedUrl
      withPath ==
        IF IsSet(config.path) /\ Get(config.path) # <<>>
        THEN withBasePath \o
             (IF startsWith(Get(config.path), "/") THEN Get(config.path)
              ELSE <<"/">> \o Get(config.path))
        ELSE withBasePath
      queryString ==
        IF IsSet(config.params) /\ Len(Get(config.params)) > 0
        THEN URLSearchParamsToString(appendParams(Get(config.params)))
        ELSE <<>>
  IN IF queryString # <<>> THEN withPath \o <<"?">> \o queryString ELSE withPath

\* mergeHeaders with the two spreads in the other order.
mergeHeadersClientWins(options, requestHeaders, produced) ==
  LET defaultHeaders ==
        CASE options.headers.kind = "function" -> produced
          [] options.headers.kind = "object" -> options.headers.value
          [] OTHER -> NoHeaders
  IN spread(spread([k \in {"Content-Type"} |-> DEFAULT_CONTENT_TYPE],
                   IF IsSet(requestHeaders) THEN Get(requestHeaders) ELSE NoHeaders),
            defaultHeaders)

\* mergeHeaders, given what the producer returned when options.headers is a
\* function
mergeHeaders(options, requestHeaders, produced) ==
  LET defaultHeaders ==
        CASE options.headers.kind = "function" -> produced
          [] options.headers.kind = "object" -> options.headers.value
          [] OTHER -> NoHeaders
  IN spread(spread([k \in {"Content-Type"} |-> DEFAULT_CONTENT_TYPE], defaultHeaders),
            IF IsSet(requestHeaders) THEN Get(requestHeaders) ELSE NoHeaders)

effectiveMethod(config) ==
  IF IsSet(config.method) /\ Get(config.method) # "" THEN Get(config.method)
  ELSE DEFAULT_HTTP_METHOD

effectiveTimeout(options, config) ==
  IF IsSet(config.timeout) THEN Get(config.timeout) ELSE options.timeout

\* JSON.stringify throws a TypeError on a value that refers to itself
VCircular == "{self:[Circular]}"

\* options.body = text; a body that is undefined is no body to fetch
bodyOf(text) == IF text = "undefined" THEN None ELSE Some(text)

\* buildOptions without the test of the method.
buildOptionsAnyMethod(options, config, produced) ==
  LET opts == [method |-> effectiveMethod(config),
               timeout |-> effectiveTimeout(options, config),
               headers |-> mergeHeaders(options, config.headers, produced),
               body |-> None]
  IN IF Truthy(config.body)
     THEN IF config.body = VCircular
          THEN [threw |-> TRUE, value |-> opts,
                error |-> PlainError("Converting circular structure to JSON")]
          ELSE [threw |-> FALSE,
                value |-> [opts EXCEPT !.body = bodyOf(JsonStringify(config.body))],
                error |-> NullError]
     ELSE [threw |-> FALSE, value |-> opts, error |-> NullError]

buildOptions(options, config, produced) ==
  LET opts == [method |-> effectiveMethod(config),
               timeout |-> effectiveTimeout(options, config),
               headers |-> mergeHeaders(options, config.headers, produced),
               body |-> None]
  IN IF Truthy(config.body) /\ opts.method \notin {"GET", "HEAD"}
     THEN IF config.body = VCircular
          THEN [threw |-> TRUE, value |-> opts,
                error |-> PlainError("Converting circular structure to JSON")]
          ELSE [threw |-> FALSE,
                value |-> [opts EXCEPT !.body = bodyOf(JsonStringify(config.body))],
                error |-> NullError]
     ELSE [threw |-> FALSE, value |-> opts, error |-> NullError]

(***************************************************************************)
(* Schemas.  A schema is [parse, validate, validateSync, cast, wrapped];   *)
(* a capability is "absent" or names what the validator's function does.   *)
(***************************************************************************)
Capabilities == <<"parse", "validate", "validateSync", "cast">>

Returned(v) == [threw |-> FALSE, value |-> v, error |-> NullError]
Threw(e) == [threw |-> TRUE, value |-> VUndefined, error |-> e]

HasName(data) == data \in {VNewUser, VNewUserTrimmed, VUser}

\* What the validator functions of the model do with the data they are given.
Run(behaviour, data) ==
  CASE behaviour = "identity" -> Returned(data)
    [] behaviour = "addRole" ->
         Returned(IF data = VNewUser THEN VNewUserTrimmed ELSE data)
    [] behaviour = "requireName" ->
         IF HasName(data) THEN Returned(data)
         ELSE Threw(PlainError("Name is required"))
    [] behaviour = "dropValue" -> Returned(VUndefined)
    [] behaviour = "rejectError" ->
         IF data = VNotFound THEN Threw(PlainError("Not found")) ELSE Returned(data)
    [] behaviour = "rejectWithStatus" ->
         IF data = VNotFound
         THEN Threw(FeziErrorWithResponse("Unprocessable", NoUrl, "none", 422))
         ELSE Returned(data)
    [] OTHER -> Returned(data)

\* validate and validateSync return {value: T}
RunWrapped(behaviour, data) ==
  LET r == Run(behaviour, data)
  IN IF r.threw THEN r ELSE [r EXCEPT !.value = <<r.value>>]

\* the outcome r of a validation in which the schema functions named were
\* called, in that order
Called(names, r) ==
  [threw |-> r.threw, value |-> r.value, error |-> r.error, invoked |-> names]

\* validateWithSchema with the tests in the opposite order.
validateWithSchemaCastFirst(data, schema, performValidation) ==
  IF ~performValidation THEN Called(<<>>, Returned(data))
  ELSE IF schema.cast # "absent" THEN Called(<<"cast">>, Run(schema.cast, data))
  ELSE IF schema.validateSync # "absent" THEN
         LET r == RunWrapped(schema.validateSync, data)
         IN Called(<<"validateSync">>, IF r.threw THEN r ELSE Returned(r.value[1]))
  ELSE IF schema.validate # "absent" THEN
         LET r == RunWrapped(schema.validate, data)
         IN Called(<<"validate">>, IF r.threw THEN r ELSE Returned(r.value[1]))
  ELSE IF schema.parse # "absent" THEN Called(<<"parse">>, Run(schema.parse, data))
  ELSE Called(<<>>, Returned(data))

validateWithSchema(data, schema, performValidation) ==
  IF ~performValidation THEN Called(<<>>, Returned(data))
  ELSE IF schema.parse # "absent" THEN Called(<<"parse">>, Run(schema.parse, data))
  ELSE IF schema.validate # "absent" THEN
         LET r == RunWrapped(schema.validate, data)
         IN Called(<<"validate">>, IF r.threw THEN r ELSE Returned(r.value[1]))
  ELSE IF schema.validateSync # "absent" THEN
         LET r == RunWrapped(schema.validateSync, data)
         IN Called(<<"validateSync">>, IF r.threw THEN r ELSE Returned(r.value[1]))
  ELSE IF schema.cast # "absent" THEN Called(<<"cast">>, Run(schema.cast, data))
  ELSE Called(<<>>, Returned(data))

createZodSchema(zodSchema) ==
  [parse |-> zodSchema.parse, validate |-> "absent", validateSync |-> "absent",
   cast |-> "absent", wrapped |-> TRUE]

SchemaOf(parse, validate, validateSync, cast) ==
  [parse |-> parse, validate |-> validate, validateSync |-> validateSync,
   cast |-> cast, wrapped |-> FALSE]

(***************************************************************************)
(* Endpoint: [config, inputSchema, outputSchema], and its builders.        *)
(***************************************************************************)
EndpointNew ==
  [config |-> [path |-> None, method |-> None, headers |-> None, timeout |-> None],
   inputSchema |-> None, outputSchema |-> None]

IsZodLike(schema) ==
  /\ schema.parse # "absent"
  /\ schema.validate = "absent"
  /\ schema.validateSync = "absent"
  /\ schema.cast = "absent"

input(e, schema) ==
  [e EXCEPT !.inputSchema =
     Some(IF IsZodLike(schema) THEN createZodSchema(schema) ELSE schema)]

output(e, schema) ==
  [e EXCEPT !.outputSchema =
     Some(IF IsZodLike(schema) THEN createZodSchema(schema) ELSE schema)]

path(e, p) == [e EXCEPT !.config.path = Some(p)]
method(e, m) == [e EXCEPT !.config.method = Some(m)]
\* headers(h) that adds h to the headers set before.
headersMerged(e, h) ==
  [e EXCEPT !.config.headers = Some(IF IsSet(@) THEN spread(Get(@), h) ELSE h)]

headers(e, h) == [e EXCEPT !.config.headers = Some(h)]
timeout(e, t) == [e EXCEPT !.config.timeout = Some(t)]

\* APIClient.route(config): a builder is applied for each truthy field
route(config) ==
  LET e0 == EndpointNew
      e1 == IF IsSet(config.path) /\ Get(config.path) # <<>>
            THEN path(e0, Get(config.path)) ELSE e0
      e2 == IF IsSet(config.method) /\ Get(config.method) # ""
            THEN method(e1, Get(config.method)) ELSE e1
      e3 == IF IsSet(config.headers) THEN headers(e2, Get(config.headers)) ELSE e2
      e4 == IF IsSet(config.timeout) /\ Get(config.timeout) # 0
            THEN timeout(e3, Get(config.timeout)) ELSE e3
  IN e4

RouteConfig(p, m, h, t) == [path |-> p, method |-> m, headers |-> h, timeout |-> t]

\* EndpointCatch with the status check dropped: every error reports 500.
EndpointCatchAlwaysSentinel(error, config) ==
  LET feziError ==
        IF IsFeziError(error) THEN error
        ELSE FeziError(MessageOf(error),
                       IF IsSet(config.path) THEN Get(config.path) ELSE <<>>,
                       "config")
  IN [data |-> VNull, error |-> feziError, status |-> SENTINEL_STATUS]

\* EndpointCatch wrapping with a message of its own.
EndpointCatchOwnMessage(error, config) ==
  LET feziError ==
        IF IsFeziError(error) THEN error
        ELSE FeziError("Request failed",
                       IF IsSet(config.path) THEN Get(config.path) ELSE <<>>,
                       "config")
      errorStatus == IF feziError.hasStatus THEN feziError.status ELSE SENTINEL_STATUS
  IN [data |-> VNull, error |-> feziError, status |-> errorStatus]

\* The catch block of Endpoint.execute, with the Endpoint's config as it is
\* when the exception arrives.
EndpointCatch(error, config) ==
  LET feziError ==
        IF IsFeziError(error) THEN error
        ELSE FeziError(MessageOf(error),
                       IF IsSet(config.path) THEN Get(config.path) ELSE <<>>,
                       "config")
      errorStatus == IF feziError.hasStatus THEN feziError.status ELSE SENTINEL_STATUS
  IN [data |-> VNull, error |-> feziError, status |-> errorStatus]

\* EndpointReturn turning an HTTP failure status into an error record.
EndpointReturnHttpError(data, status) ==
  IF status >= 400
  THEN [data |-> VNull, error |-> FeziErrorWithResponse("HTTP error", NoUrl, "config", status),
        status |-> status]
  ELSE [data |-> data, error |-> NullError, status |-> status]

\* EndpointReturn reporting the sentinel for every status that is not ok.
EndpointReturnOkOnly(data, status) ==
  [data |-> data, error |-> NullError,
   status |-> IF status >= 200 /\ status < 300 THEN status ELSE SENTINEL_STATUS]

\* return { data, error: null, status: response.status }
EndpointReturn(data, status) == [data |-> data, error |-> NullError, status |-> status]

NoResult == [data |-> VUndefined, error |-> NullError, status |-> 0]

(***************************************************************************)
(* The state.                                                              *)
(*   options   the APIClient's options                                     *)
(*   endpoint  the Endpoint: its RouteConfig and schemas                   *)
(*   calls     the Endpoint.execute calls, each with its position (pc),    *)
(*             its locals, and a record of what the environment did to it  *)
(*   router    the router tree handed to createClientAPI and to the        *)
(*             TanStack adapters, as the composer left it                  *)
(*   api       what createClientAPI returned, when it was called           *)
(*   tanstack  what the TanStack adapter returned, when it was called      *)
(*   key       the last getKey call: [path, params, value]                 *)
(*   optionsMade  the last queryOptions or mutationOptions call:           *)
(*             [fn, path, config, value]                                   *)
(***************************************************************************)
VARIABLES options, endpoint, calls, router, api, tanstack, key, optionsMade

vars == <<options, endpoint, calls, router, api, tanstack, key, optionsMade>>

\* what the steps of an Endpoint.execute call leave alone
composed == <<options, endpoint, router, api, tanstack, key, optionsMade>>

\* no router has been composed
NoRouter ==
  router = <<>> /\ api = None /\ tanstack = None /\ key = None /\ optionsMade = None

IdleCall ==
  [pc |-> "idle",
   input |-> VUndefined, params |-> None,
   inputSchema |-> None,       \* the input schema when execute was called
   inputCalls |-> <<>>,        \* the input schema's functions called
   outputCalls |-> <<>>,       \* the output schema's functions called
   config |-> None,            \* {...this.config, body, params}
   url |-> NoUrl,
   sent |-> None,              \* what fetch was called with: [url, options]
   fetches |-> 0,              \* transport calls issued
   producerCalls |-> 0,        \* invocations of the default-headers producer
   produced |-> None,          \* the headers the producer returned
   timer |-> "none",           \* none | pending | fired | cleared
   timers |-> 0,               \* timers registered
   aborted |-> FALSE,          \* controller.abort() was called
   response |-> None,
   outputSchema |-> None,      \* the output schema applied to the response
   outputSchemaAtCall |-> None, \* the output schema when execute was called
   thrown |-> None,            \* the exception that ended the call: [stage, error]
   raised |-> None,            \* the exception execute raised to its caller
   result |-> NoResult,        \* the record execute returned
   via |-> None,               \* the composed function that made the call
   settled |-> None]           \* what that function's own promise settled to

\* onInputThrow with the validation moved inside the try region.
onInputThrowCaught(call, error) ==
  [call EXCEPT !.pc = "returned",
               !.result = [data |-> VNull,
                           error |-> FeziError(MessageOf(error), NoUrl, "config"),
                           status |-> SENTINEL_STATUS]]

\* An input validation exception leaves execute: it is thrown before the try.
onInputThrow(call, error) ==
  [call EXCEPT !.pc = "raised", !.raised = Some(error)]

\* An exception inside the try region is caught and becomes the record.
onCaught(call, error, config) ==
  [call EXCEPT !.pc = "returned", !.result = EndpointCatch(error, config)]

\* clearTimer for a fetchRequest without the finally block.
clearTimerNever(t) == t

\* The finally block of fetchRequest: clearTimeout(timeoutId).
clearTimer(t) == IF t = "pending" THEN "cleared" ELSE t

\* onFetchThrow without the wrapping in fetchRequest and Client.execute.
onFetchThrowUnwrapped(call, error, config) ==
  [call EXCEPT !.pc = "returned", !.timer = clearTimer(call.timer),
               !.result = EndpointCatch(error, config)]

\* The catch block of fetchRequest, its finally block, and Client.execute's
\* catch, which rethrows a FeziError as it is.
onFetchThrow(call, error, config) ==
  LET wrapped == FeziError(MessageOf(error), call.url, "fetchOptions")
  IN onCaught([call EXCEPT !.timer = clearTimer(call.timer)], wrapped, config)

\* armsTimer for a fetchRequest that never registers the timer.
armsTimerNever(opts) == FALSE

\* if (options.timeout) timeoutId = setTimeout(...)
armsTimer(opts) == opts.timeout # 0

\* response.headers.get('content-type')?.includes('application/json')
includesJson(contentType) ==
  contentType \in {"application/json", "application/json; charset=utf-8"}

\* execute that validates every input, a falsy one too, when a schema is set.
executeValidatingFalsy(call, in, params) ==
  LET validates == IsSet(endpoint.inputSchema)
      v == IF validates
           THEN validateWithSchema(in, Get(endpoint.inputSchema), TRUE)
           ELSE Called(<<>>, Returned(in))
      started == [call EXCEPT !.input = in, !.params = params,
                              !.inputSchema = endpoint.inputSchema,
                              !.outputSchemaAtCall = endpoint.outputSchema,
                              !.inputCalls = v.invoked]
      config == [path |-> endpoint.config.path,
                 method |-> endpoint.config.method,
                 headers |-> endpoint.config.headers,
                 timeout |-> endpoint.config.timeout,
                 body |-> v.value,
                 params |-> params]
  IN IF v.threw
     THEN onInputThrow([started EXCEPT !.thrown =
                          Some([stage |-> "input", error |-> v.error])],
                       v.error)
     ELSE [started EXCEPT
             !.pc = "preparing",
             !.config = Some(config),
             !.url = buildUrl(options, config),
             !.producerCalls =
                IF options.headers.kind = "function" THEN 1 ELSE 0]

(***************************************************************************)
(* Endpoint.execute(input, params), up to the first await: the input is    *)
(* validated, the config is copied, the URL is built and the               *)
(* default-headers producer, if there is one, is invoked.                  *)
(***************************************************************************)
\* the call record after execute(input, params) ran up to its first await
execute(call, in, params) ==
  LET validates == Truthy(in) /\ IsSet(endpoint.inputSchema)
      v == IF validates
           THEN validateWithSchema(in, Get(endpoint.inputSchema), TRUE)
           ELSE Called(<<>>, Returned(in))
      started == [call EXCEPT !.input = in, !.params = params,
                              !.inputSchema = endpoint.inputSchema,
                              !.outputSchemaAtCall = endpoint.outputSchema,
                              !.inputCalls = v.invoked]
      config == [path |-> endpoint.config.path,
                 method |-> endpoint.config.method,
                 headers |-> endpoint.config.headers,
                 timeout |-> endpoint.config.timeout,
                 body |-> v.value,
                 params |-> params]
  IN IF v.threw
     THEN onInputThrow([started EXCEPT !.thrown =
                          Some([stage |-> "input", error |-> v.error])],
                       v.error)
     ELSE [started EXCEPT
             !.pc = "preparing",
             !.config = Some(config),
             !.url = buildUrl(options, config),
             !.producerCalls =
                IF options.headers.kind = "function" THEN 1 ELSE 0]

Execute(c, in, params) ==
  /\ calls[c].pc = "idle"
  /\ calls' = [calls EXCEPT ![c] = execute(calls[c], in, params)]
  /\ UNCHANGED composed

\* await this.options.headers() that hands out the value an earlier call was
\* given, when there is one.
awaitHeadersCached(c, outcome) ==
  IF \E d \in DOMAIN calls : d # c /\ IsSet(calls[d].produced)
  THEN Produced(Get(calls[CHOOSE d \in DOMAIN calls :
                             d # c /\ IsSet(calls[d].produced)].produced))
  ELSE outcome

\* await this.options.headers() of call c: what this invocation of the
\* producer returned or threw
awaitHeaders(c, outcome) == outcome

\* Prepared for a Client that reads the Endpoint's config when the awaited
\* headers settle, not the copy execute handed over.
PreparedFromEndpoint(c, outcome) ==
  /\ calls[c].pc = "preparing"
  /\ options.headers.kind # "function" => outcome = Produced(NoHeaders)
  /\ LET call == calls[c]
         live == [Get(call.config) EXCEPT !.method = endpoint.config.method,
                                          !.headers = endpoint.config.headers,
                                          !.timeout = endpoint.config.timeout]
         built == buildOptions(options, live, outcome.value)
     IN calls' = [calls EXCEPT ![c] =
          IF outcome.threw
          THEN onCaught([call EXCEPT !.thrown =
                           Some([stage |-> "producer", error |-> outcome.error])],
                        outcome.error, endpoint.config)
          ELSE IF built.threw
          THEN onCaught([call EXCEPT !.thrown =
                           Some([stage |-> "stringify", error |-> built.error])],
                        built.error, endpoint.config)
          ELSE [call EXCEPT
                  !.pc = "fetching",
                  !.sent = Some([url |-> call.url, options |-> built.value]),
                  !.produced = IF options.headers.kind = "function"
                               THEN Some(outcome.value) ELSE None,
                  !.fetches = @ + 1,
                  !.timer = IF armsTimer(built.value) THEN "pending" ELSE "none",
                  !.timers = IF armsTimer(built.value) THEN @ + 1 ELSE @]]
  /\ UNCHANGED composed

(***************************************************************************)
(* The awaited mergeHeaders settles.  When the producer threw, or          *)
(* JSON.stringify does, the exception leaves Client.execute and is caught  *)
(* by Endpoint.execute.  Otherwise fetchRequest arms the timer and calls   *)
(* fetch.                                                                  *)
(***************************************************************************)
Prepared(c, outcome) ==
  /\ calls[c].pc = "preparing"
  /\ options.headers.kind # "function" => outcome = Produced(NoHeaders)
  /\ LET call == calls[c]
         awaited == awaitHeaders(c, outcome)
         built == buildOptions(options, Get(call.config), awaited.value)
     IN calls' = [calls EXCEPT ![c] =
          IF awaited.threw
          THEN onCaught([call EXCEPT !.thrown =
                           Some([stage |-> "producer", error |-> awaited.error])],
                        awaited.error, endpoint.config)
          ELSE IF built.threw
          THEN onCaught([call EXCEPT !.thrown =
                           Some([stage |-> "stringify", error |-> built.error])],
                        built.error, endpoint.config)
          ELSE [call EXCEPT
                  !.pc = "fetching",
                  !.sent = Some([url |-> call.url, options |-> built.value]),
                  !.produced = IF options.headers.kind = "function"
                               THEN Some(outcome.value) ELSE None,
                  !.fetches = @ + 1,
                  !.timer = IF armsTimer(built.value) THEN "pending" ELSE "none",
                  !.timers = IF armsTimer(built.value) THEN @ + 1 ELSE @]]
  /\ UNCHANGED composed

\* The transport delivers a response: fetch resolves.
Respond(c, r) ==
  /\ calls[c].pc = "fetching"
  /\ ~calls[c].aborted
  /\ calls' = [calls EXCEPT ![c].pc = "decoding", ![c].response = Some(r)]
  /\ UNCHANGED composed

\* NetworkFail for a Client that calls fetch again after a first rejection.
NetworkFailRetried(c, error) ==
  /\ calls[c].pc = "fetching"
  /\ ~calls[c].aborted
  /\ calls' = [calls EXCEPT ![c] =
       IF calls[c].fetches < 2
       THEN [calls[c] EXCEPT !.fetches = @ + 1]
       ELSE onFetchThrow([calls[c] EXCEPT !.thrown =
                            Some([stage |-> "transport", error |-> error])],
                         error, endpoint.config)]
  /\ UNCHANGED composed

\* The transport fails: fetch rejects.
NetworkFail(c, error) ==
  /\ calls[c].pc = "fetching"
  /\ ~calls[c].aborted
  /\ calls' = [calls EXCEPT ![c] =
       onFetchThrow([calls[c] EXCEPT !.thrown =
                       Some([stage |-> "transport", error |-> error])],
                    error, endpoint.config)]
  /\ UNCHANGED composed

\* TimerFire with one AbortController shared by the requests of a Client.
TimerFireSharedController(c) ==
  /\ calls[c].timer = "pending"
  /\ calls' = [d \in DOMAIN calls |->
       IF d = c THEN [calls[d] EXCEPT !.timer = "fired", !.aborted = TRUE]
       ELSE IF calls[d].pc \in {"fetching", "decoding"}
       THEN [calls[d] EXCEPT !.aborted = TRUE]
       ELSE calls[d]]
  /\ UNCHANGED composed

\* The timer fires: controller.abort().
TimerFire(c) ==
  /\ calls[c].timer = "pending"
  /\ calls' = [calls EXCEPT ![c].timer = "fired", ![c].aborted = TRUE]
  /\ UNCHANGED composed

AbortError == PlainError("This operation was aborted")

\* The aborted fetch, or the aborted read of the body, rejects.
AbortReject(c) ==
  /\ calls[c].pc \in {"fetching", "decoding"}
  /\ calls[c].aborted
  /\ calls' = [calls EXCEPT ![c] =
       onFetchThrow([calls[c] EXCEPT !.thrown =
                       Some([stage |-> "abort", error |-> AbortError])],
                    AbortError, endpoint.config)]
  /\ UNCHANGED composed

SyntaxError == PlainError("Unexpected token < in JSON at position 0")

\* Decode for an Endpoint.execute that keeps the output schema it had when
\* it was called.
DecodeWithSchemaAtCall(c) ==
  /\ calls[c].pc = "decoding"
  /\ ~calls[c].aborted
  /\ LET call == calls[c]
         r == Get(call.response)
         isJson == includesJson(r.contentType)
         data == IF isJson THEN JsonParse(r.body) ELSE r.body
         v == IF IsSet(call.outputSchemaAtCall)
              THEN validateWithSchema(data, Get(call.outputSchemaAtCall), TRUE)
              ELSE Called(<<>>, Returned(data))
         cleared == [call EXCEPT !.timer = clearTimer(call.timer),
                                 !.outputSchema = endpoint.outputSchema,
                                 !.outputCalls = v.invoked]
     IN calls' = [calls EXCEPT ![c] =
          IF isJson /\ ~JsonParses(r.body)
          THEN onFetchThrow([call EXCEPT !.thrown =
                               Some([stage |-> "decode", error |-> SyntaxError])],
                            SyntaxError, endpoint.config)
          ELSE IF v.threw
          THEN onCaught([cleared EXCEPT !.thrown =
                           Some([stage |-> "output", error |-> v.error])],
                        v.error, endpoint.config)
          ELSE [cleared EXCEPT !.pc = "returned",
                               !.result = EndpointReturn(v.value, r.status)]]
  /\ UNCHANGED composed

(***************************************************************************)
(* The body has been read: response.json() or response.text() settles,     *)
(* fetchRequest returns, and Endpoint.execute applies the output schema    *)
(* the Endpoint has now and returns.                                       *)
(***************************************************************************)
Decode(c) ==
  /\ calls[c].pc = "decoding"
  /\ ~calls[c].aborted
  /\ LET call == calls[c]
         r == Get(call.response)
         isJson == includesJson(r.contentType)
         data == IF isJson THEN JsonParse(r.body) ELSE r.body
         v == IF IsSet(endpoint.outputSchema)
              THEN validateWithSchema(data, Get(endpoint.outputSchema), TRUE)
              ELSE Called(<<>>, Returned(data))
         cleared == [call EXCEPT !.timer = clearTimer(call.timer),
                                 !.outputSchema = endpoint.outputSchema,
                                 !.outputCalls = v.invoked]
     IN calls' = [calls EXCEPT ![c] =
          IF isJson /\ ~JsonParses(r.body)
          THEN onFetchThrow([call EXCEPT !.thrown =
                               Some([stage |-> "decode", error |-> SyntaxError])],
                            SyntaxError, endpoint.config)
          ELSE IF v.threw
          THEN onCaught([cleared EXCEPT !.thrown =
                           Some([stage |-> "output", error |-> v.error])],
                        v.error, endpoint.config)
          ELSE [cleared EXCEPT !.pc = "returned",
                               !.result = EndpointReturn(v.value, r.status)]]
  /\ UNCHANGED composed

(***************************************************************************)
(* The builder operations called on the Endpoint, at any time: before a    *)
(* call of execute, and while one is in flight.                            *)
(***************************************************************************)
\* client.route(config): the Endpoint the caller goes on with
Route(config) ==
  /\ endpoint' = route(config)
  /\ UNCHANGED <<options, calls, router, api, tanstack, key, optionsMade>>

Path(p) ==
  /\ endpoint' = path(endpoint, p)
  /\ UNCHANGED <<options, calls, router, api, tanstack, key, optionsMade>>

Method(m) ==
  /\ endpoint' = method(endpoint, m)
  /\ UNCHANGED <<options, calls, router, api, tanstack, key, optionsMade>>

Headers(h) ==
  /\ endpoint' = headers(endpoint, h)
  /\ UNCHANGED <<options, calls, router, api, tanstack, key, optionsMade>>

Timeout(t) ==
  /\ endpoint' = timeout(endpoint, t)
  /\ UNCHANGED <<options, calls, router, api, tanstack, key, optionsMade>>

Input(schema) ==
  /\ endpoint' = input(endpoint, schema)
  /\ UNCHANGED <<options, calls, router, api, tanstack, key, optionsMade>>

Output(schema) ==
  /\ endpoint' = output(endpoint, schema)
  /\ UNCHANGED <<options, calls, router, api, tanstack, key, optionsMade>>

(***************************************************************************)
(* Router trees.  An object is the sequence of its entries                 *)
(* [key, value], in the order for-in visits them.  A value is an Endpoint  *)
(* (an object with an identity and its own properties), a nested object,   *)
(* a number, null, or a function a composer bound.                         *)
(***************************************************************************)
EndpointObject(id, e) ==
  [kind |-> "Endpoint", id |-> id,
   own |-> {"client", "config"}
             \cup (IF IsSet(e.inputSchema) THEN {"inputSchema"} ELSE {})
             \cup (IF IsSet(e.outputSchema) THEN {"outputSchema"} ELSE {}),
   config |-> e.config, inputSchema |-> e.inputSchema,
   outputSchema |-> e.outputSchema]

ObjectOf(entries) == [kind |-> "object", entries |-> entries]
NumberOf(n) == [kind |-> "number", value |-> n]
StringOf(s) == [kind |-> "string", value |-> s]
NullValue == [kind |-> "null"]
Missing == [kind |-> "undefined"]
Entry(k, v) == [key |-> k, value |-> v]

\* node[k]
Property(node, k) ==
  IF \E i \in 1..Len(node) : node[i].key = k
  THEN node[CHOOSE i \in 1..Len(node) : node[i].key = k].value
  ELSE Missing

\* node[p[1]][p[2]]...
RECURSIVE Lookup(_, _)
Lookup(node, p) ==
  IF Len(p) = 1 THEN Property(node, p[1])
  ELSE LET inner == Property(node, p[1])
       IN IF inner.kind = "object" THEN Lookup(inner.entries, Tail(p))
          ELSE Missing

\* (input, params) => value.execute(input, params): the function bound to
\* an Endpoint
BoundFunction(value) == [kind |-> "function", endpoint |-> value.id]

\* invoke that calls execute with the input alone.
invokeWithoutParams(fn, in, params) ==
  [executes |-> <<[endpoint |-> fn.endpoint, input |-> in, params |-> None]>>,
   returns |-> 1]

\* What a call of the bound function does: the execute calls it makes, and
\* which of their promises it returns.
invoke(fn, in, params) ==
  [executes |-> <<[endpoint |-> fn.endpoint, input |-> in, params |-> params]>>,
   returns |-> 1]

\* createClientAPI that binds Endpoints only and drops nested objects.
RECURSIVE createClientAPIFlat(_)
createClientAPIFlat(node) ==
  IF node = <<>> THEN <<>>
  ELSE LET k == Head(node).key
           value == Head(node).value
           rest == createClientAPIFlat(Tail(node))
       IN IF value.kind = "Endpoint"
          THEN <<Entry(k, BoundFunction(value))>> \o rest
          ELSE rest

RECURSIVE createClientAPI(_)
createClientAPI(node) ==
  IF node = <<>> THEN <<>>
  ELSE LET k == Head(node).key
           value == Head(node).value
           rest == createClientAPI(Tail(node))
       IN IF value.kind = "Endpoint"
          THEN <<Entry(k, BoundFunction(value))>> \o rest
          ELSE IF value.kind \in {"object", "null"}
          THEN <<Entry(k, ObjectOf(createClientAPI(
                             IF value.kind = "null" THEN <<>>
                             ELSE value.entries)))>> \o rest
          ELSE rest

\* createClientAPI that assigns every other value to the result as it is.
RECURSIVE createClientAPIPassing(_)
createClientAPIPassing(node) ==
  IF node = <<>> THEN <<>>
  ELSE LET k == Head(node).key
           value == Head(node).value
           rest == createClientAPIPassing(Tail(node))
       IN IF value.kind = "Endpoint"
          THEN <<Entry(k, BoundFunction(value))>> \o rest
          ELSE IF value.kind = "object"
          THEN <<Entry(k, ObjectOf(createClientAPIPassing(value.entries)))>> \o rest
          ELSE <<Entry(k, value)>> \o rest

\* CreateClientAPI with a composer that passes other values through.
CreateClientAPIPassing ==
  /\ api = None
  /\ router # <<>>
  /\ api' = Some(createClientAPIPassing(router))
  /\ UNCHANGED <<options, endpoint, calls, router, tanstack, key, optionsMade>>

\* const api = createClientAPI(router)
CreateClientAPI ==
  /\ api = None
  /\ router # <<>>
  /\ api' = Some(createClientAPI(router))
  /\ UNCHANGED <<options, endpoint, calls, router, tanstack, key, optionsMade>>

\* api.<p>(input, params): the bound function calls execute, which runs up
\* to its first await, and returns its promise
ApiCall(c, p, in, params) ==
  /\ IsSet(api)
  /\ calls[c].pc = "idle"
  /\ LET fn == Lookup(Get(api), p)
         made == IF fn.kind = "function" THEN invoke(fn, in, params)
                 ELSE [executes |-> <<>>, returns |-> 0]
         first == made.executes[1]
     IN /\ fn.kind = "function"
        /\ Len(made.executes) > 0
        /\ calls' = [calls EXCEPT ![c] =
             [execute(calls[c], first.input, first.params) EXCEPT
                !.via = Some([kind |-> "api", path |-> p,
                              input |-> in, params |-> params,
                              target |-> first.endpoint,
                              executes |-> Len(made.executes),
                              returns |-> made.returns])]]
  /\ UNCHANGED composed

(***************************************************************************)
(* The TanStack adapters.  An enhanced endpoint is a plain object: the own *)
(* properties of the Endpoint it was copied from, and the functions the    *)
(* adapter attached, which close over the Endpoint and over the key path.  *)
(* Every function here returns the object it built together with its       *)
(* argument as the call left it.                                           *)
(***************************************************************************)
AttachedByReact == {"queryOptions", "mutationOptions", "getKey"}
AttachedByQuery == {"queryOptions", "getKey"}
AttachedByMutation == {"mutationOptions"}

\* const enhancedEndpoint = { ...endpoint }, then the assignments of the
\* attached functions to the copy
Enhanced(e, p, adapter, attached) ==
  [kind |-> "enhanced", adapter |-> adapter, closesOver |-> e.id, path |-> p,
   own |-> e.own \cup attached,
   config |-> e.config, inputSchema |-> e.inputSchema,
   outputSchema |-> e.outputSchema]

\* enhanceEndpoint that attaches the functions to the Endpoint itself.
enhanceEndpointInPlace(e, p) ==
  [endpoint |-> [e EXCEPT !.own = @ \cup AttachedByReact],
   enhanced |-> Enhanced(e, p, "react", AttachedByReact)]

enhanceEndpoint(e, p) ==
  [endpoint |-> e, enhanced |-> Enhanced(e, p, "react", AttachedByReact)]

asTanStackEndpoint(e, p) ==
  [endpoint |-> e, enhanced |-> Enhanced(e, p, "vue", AttachedByReact)]

enhanceEndpointWithQuery(e, p) ==
  [endpoint |-> e, enhanced |-> Enhanced(e, p, "query", AttachedByQuery)]

enhanceEndpointWithMutation(e, p) ==
  [endpoint |-> e, enhanced |-> Enhanced(e, p, "mutation", AttachedByMutation)]

\* typeof item === 'object' && item !== null
IsNonNullObject(value) == value.kind = "object"

\* createTanStackAPI(router, basePath) of the React adapter: values that
\* are neither Endpoints nor objects get no key in the result
RECURSIVE createTanStackAPI(_, _)
createTanStackAPI(node, basePath) ==
  IF node = <<>> THEN [router |-> <<>>, result |-> <<>>]
  ELSE LET iterKey == Head(node).key
           item == Head(node).value
           currentPath == Append(basePath, iterKey)
           rest == createTanStackAPI(Tail(node), basePath)
           made == enhanceEndpoint(item, currentPath)
           inner == createTanStackAPI(item.entries, currentPath)
       IN IF item.kind = "Endpoint"
          THEN [router |-> <<Entry(iterKey, made.endpoint)>> \o rest.router,
                result |-> <<Entry(iterKey, made.enhanced)>> \o rest.result]
          ELSE IF IsNonNullObject(item)
          THEN [router |-> <<Entry(iterKey, ObjectOf(inner.router))>> \o rest.router,
                result |-> <<Entry(iterKey, ObjectOf(inner.result))>> \o rest.result]
          ELSE [router |-> <<Entry(iterKey, item)>> \o rest.router,
                result |-> rest.result]

\* createTanStackQueryAPI(router, basePath)
RECURSIVE createTanStackQueryAPI(_, _)
createTanStackQueryAPI(node, basePath) ==
  IF node = <<>> THEN [router |-> <<>>, result |-> <<>>]
  ELSE LET k == Head(node).key
           entity == Head(node).value
           currentPath == Append(basePath, k)
           rest == createTanStackQueryAPI(Tail(node), basePath)
           made == enhanceEndpointWithQuery(entity, currentPath)
           inner == createTanStackQueryAPI(entity.entries, currentPath)
       IN IF entity.kind = "Endpoint"
          THEN [router |-> <<Entry(k, made.endpoint)>> \o rest.router,
                result |-> <<Entry(k, made.enhanced)>> \o rest.result]
          ELSE IF IsNonNullObject(entity)
          THEN [router |-> <<Entry(k, ObjectOf(inner.router))>> \o rest.router,
                result |-> <<Entry(k, ObjectOf(inner.result))>> \o rest.result]
          ELSE [router |-> <<Entry(k, entity)>> \o rest.router,
                result |-> rest.result]

\* createTanStackMutationAPI(router, basePath)
RECURSIVE createTanStackMutationAPI(_, _)
createTanStackMutationAPI(node, basePath) ==
  IF node = <<>> THEN [router |-> <<>>, result |-> <<>>]
  ELSE LET k == Head(node).key
           entity == Head(node).value
           currentPath == Append(basePath, k)
           rest == createTanStackMutationAPI(Tail(node), basePath)
           made == enhanceEndpointWithMutation(entity, currentPath)
           inner == createTanStackMutationAPI(entity.entries, currentPath)
       IN IF entity.kind = "Endpoint"
          THEN [router |-> <<Entry(k, made.endpoint)>> \o rest.router,
                result |-> <<Entry(k, made.enhanced)>> \o rest.result]
          ELSE IF IsNonNullObject(entity)
          THEN [router |-> <<Entry(k, ObjectOf(inner.router))>> \o rest.router,
                result |-> <<Entry(k, ObjectOf(inner.result))>> \o rest.result]
          ELSE [router |-> <<Entry(k, entity)>> \o rest.router,
                result |-> rest.result]

\* createTanStackAPI(router, basePath) of the Vue adapter: every other
\* value is assigned to the result as it is
RECURSIVE vueCreateTanStackAPI(_, _)
vueCreateTanStackAPI(node, basePath) ==
  IF node = <<>> THEN [router |-> <<>>, result |-> <<>>]
  ELSE LET iterKey == Head(node).key
           item == Head(node).value
           currentPath == Append(basePath, iterKey)
           rest == vueCreateTanStackAPI(Tail(node), basePath)
           made == asTanStackEndpoint(item, currentPath)
           inner == vueCreateTanStackAPI(item.entries, currentPath)
       IN IF item.kind = "Endpoint"
          THEN [router |-> <<Entry(iterKey, made.endpoint)>> \o rest.router,
                result |-> <<Entry(iterKey, made.enhanced)>> \o rest.result]
          ELSE IF IsNonNullObject(item)
          THEN [router |-> <<Entry(iterKey, ObjectOf(inner.router))>> \o rest.router,
                result |-> <<Entry(iterKey, ObjectOf(inner.result))>> \o rest.result]
          ELSE [router |-> <<Entry(iterKey, item)>> \o rest.router,
                result |-> <<Entry(iterKey, item)>> \o rest.result]

Adapters == {"react", "vue", "query", "mutation"}

\* the adapter's entry point applied to a router
adapt(adapter, node) ==
  CASE adapter = "react" -> createTanStackAPI(node, <<>>)
    [] adapter = "vue" -> vueCreateTanStackAPI(node, <<>>)
    [] adapter = "query" -> createTanStackQueryAPI(node, <<>>)
    [] adapter = "mutation" -> createTanStackMutationAPI(node, <<>>)

\* const api = createTanStackAPI(router), or one of its variants
CreateTanStackAPI(adapter) ==
  /\ tanstack = None
  /\ router # <<>>
  /\ LET made == adapt(adapter, router)
     IN /\ router' = made.router
        /\ tanstack' = Some([adapter |-> adapter, before |-> router,
                             api |-> made.result])
  /\ UNCHANGED <<options, endpoint, calls, api, key, optionsMade>>

\* toError that makes a new Error of the message, whatever it is given.
toErrorAlwaysNew(err) ==
  IF err.kind = "null" THEN PlainError("Unknown error")
  ELSE PlainError(err.message)

\* toError(err)
toError(err) ==
  IF err.kind \in {"Error", "FeziError"} THEN err
  ELSE IF err.kind = "value" THEN PlainError(err.message)
  ELSE PlainError("Unknown error")

\* the conversion written out in the query-only and mutation-only adapters
inlineToError(err, unknown) ==
  IF err.kind \in {"Error", "FeziError"} THEN err
  ELSE IF err.kind = "value" THEN PlainError(err.message)
  ELSE PlainError(unknown)

\* if (result.error): null is falsy, an error object is truthy, a thrown
\* string is truthy unless it is empty
IsTruthyError(err) ==
  /\ err.kind # "null"
  /\ err.kind = "value" => err.message # ""

\* afterExecute that returns the data whatever the record's error is.
afterExecuteIgnoringError(adapter, result) == Returned(result.data)

\* What queryFn and mutationFn do with the awaited record:
\* if (result.error) throw toError(result.error); return result.data
afterExecute(adapter, result) ==
  IF IsTruthyError(result.error)
  THEN Threw(CASE adapter \in {"react", "vue"} -> toError(result.error)
               [] adapter = "query" ->
                    inlineToError(result.error, "Unknown query error")
               [] adapter = "mutation" ->
                    inlineToError(result.error, "Unknown mutation error"))
  ELSE Returned(result.data)

\* config || {} of queryOptions and mutationOptions
NoConfig == [input |-> VUndefined, urlParams |-> None]
ConfigOf(in, urlParams) == [input |-> in, urlParams |-> urlParams]

\* queryOptions(config).queryFn(): the execute call it makes
queryFn(enhanced, config) ==
  [executes |-> <<[endpoint |-> enhanced.closesOver, input |-> config.input,
                   params |-> config.urlParams]>>,
   returns |-> 0]

\* mutationOptions(config).mutationFn(variables): the execute call it makes
mutationFn(enhanced, config, variables) ==
  [executes |-> <<[endpoint |-> enhanced.closesOver, input |-> variables,
                   params |-> config.urlParams]>>,
   returns |-> 0]

\* api.<p>.queryOptions(config).queryFn() runs up to its await
QueryFn(c, p, config) ==
  /\ IsSet(tanstack)
  /\ calls[c].pc = "idle"
  /\ LET target == Lookup(Get(tanstack).api, p)
         made == queryFn(target, config)
         first == made.executes[1]
     IN /\ target.kind = "enhanced"
        /\ "queryOptions" \in target.own
        /\ calls' = [calls EXCEPT ![c] =
             [execute(calls[c], first.input, first.params) EXCEPT
                !.via = Some([kind |-> "queryFn", path |-> p,
                              input |-> config.input,
                              params |-> config.urlParams,
                              target |-> first.endpoint,
                              executes |-> Len(made.executes),
                              returns |-> made.returns])]]
  /\ UNCHANGED composed

\* api.<p>.mutationOptions(config).mutationFn(variables) runs up to its
\* await
MutationFn(c, p, config, variables) ==
  /\ IsSet(tanstack)
  /\ calls[c].pc = "idle"
  /\ LET target == Lookup(Get(tanstack).api, p)
         made == mutationFn(target, config, variables)
         first == made.executes[1]
     IN /\ target.kind = "enhanced"
        /\ "mutationOptions" \in target.own
        /\ calls' = [calls EXCEPT ![c] =
             [execute(calls[c], first.input, first.params) EXCEPT
                !.via = Some([kind |-> "mutationFn", path |-> p,
                              input |-> variables,
                              params |-> config.urlParams,
                              target |-> first.endpoint,
                              executes |-> Len(made.executes),
                              returns |-> made.returns])]]
  /\ UNCHANGED composed

\* The awaited execute settled: queryFn or mutationFn resumes, and throws
\* or returns.  An exception execute raised leaves the await as it is.
FnSettle(c) ==
  /\ IsSet(tanstack)
  /\ IsSet(calls[c].via)
  /\ Get(calls[c].via).kind \in {"queryFn", "mutationFn"}
  /\ calls[c].pc \in {"returned", "raised"}
  /\ calls[c].settled = None
  /\ calls' = [calls EXCEPT ![c].settled =
       Some(IF calls[c].pc = "raised" THEN Threw(Get(calls[c].raised))
            ELSE afterExecute(Get(tanstack).adapter, calls[c].result))]
  /\ UNCHANGED composed

\* the UTF-16 code unit of a character of a params key
CodeUnit(ch) ==
  CASE ch = "B" -> 66
    [] ch = "a" -> 97
    [] ch = "b" -> 98

\* a < b as Array.prototype.sort() compares strings: by code units, a
\* proper prefix first
RECURSIVE Before(_, _)
Before(a, b) ==
  IF b = <<>> THEN FALSE
  ELSE IF a = <<>> THEN TRUE
  ELSE IF Head(a) = Head(b) THEN Before(Tail(a), Tail(b))
  ELSE CodeUnit(Head(a)) < CodeUnit(Head(b))

\* one key put in its place in a sorted sequence of keys
RECURSIVE Inserted(_, _)
Inserted(k, sorted) ==
  IF sorted = <<>> THEN <<k>>
  ELSE IF Before(k, Head(sorted)) THEN <<k>> \o sorted
  ELSE <<Head(sorted)>> \o Inserted(k, Tail(sorted))

\* Object.keys(params).sort()
RECURSIVE sort(_)
sort(keys) ==
  IF keys = <<>> THEN <<>> ELSE Inserted(Head(keys), sort(Tail(keys)))

\* Object.keys(params)
ObjectKeys(params) == [i \in 1..Len(params) |-> params[i].key]

\* .reduce((acc, paramKey) => { acc[paramKey] = params[paramKey]; ... }, {})
sortedParams(params) ==
  LET keys == sort(ObjectKeys(params))
  IN [i \in 1..Len(keys) |-> Entry(keys[i], Property(params, keys[i]))]

\* a query key: the path segments, and the params element when there is one
QueryKey(segments, params) == [segments |-> segments, params |-> params]

\* getKey that appends the params as they were given.
getKeyAsGiven(enhanced, params) ==
  IF IsSet(params) /\ Len(Get(params)) > 0
  THEN QueryKey(enhanced.path, params)
  ELSE QueryKey(enhanced.path, None)

\* enhanced.getKey(params): the React and Vue adapters sort the keys, the
\* query-only adapter appends the params as they are
getKey(enhanced, params) ==
  IF IsSet(params) /\ Len(Get(params)) > 0
  THEN IF enhanced.adapter = "query"
       THEN QueryKey(enhanced.path, params)
       ELSE QueryKey(enhanced.path, Some(sortedParams(Get(params))))
  ELSE QueryKey(enhanced.path, None)

\* api.<p>.getKey(params)
GetKey(p, params) ==
  /\ IsSet(tanstack)
  /\ LET target == Lookup(Get(tanstack).api, p)
     IN /\ target.kind = "enhanced"
        /\ "getKey" \in target.own
        /\ key' = Some([path |-> p, params |-> params,
                        value |-> getKey(target, params)])
  /\ UNCHANGED <<options, endpoint, calls, router, api, tanstack, optionsMade>>

(***************************************************************************)
(* queryOptions(config) and mutationOptions(config).  A config and the     *)
(* record returned are mappings from field names to values; the function   *)
(* the adapter makes is [kind "closure", fn, endpoint, input, params].     *)
(***************************************************************************)
FieldOf(v) == [kind |-> "value", value |-> v]

\* const { a, b, ...rest } = config: the fields of config left in rest
RestOf(config, taken) == [k \in DOMAIN config \ taken |-> config[k]]

Field(config, name, absent) ==
  IF name \in DOMAIN config THEN config[name].value ELSE absent

\* the queryFn the adapter makes: it closes over the Endpoint, input and
\* urlParams
queryFnClosure(enhanced, config) ==
  [kind |-> "closure", fn |-> "queryFn", endpoint |-> enhanced.closesOver,
   input |-> Field(config, "input", VUndefined),
   params |-> Field(config, "urlParams", None)]

mutationFnClosure(enhanced, config) ==
  [kind |-> "closure", fn |-> "mutationFn", endpoint |-> enhanced.closesOver,
   input |-> "variables",
   params |-> Field(config, "urlParams", None)]

\* customQueryKey ?? path, customQueryKey || path: a key is an array, which
\* is neither nullish nor falsy
queryKeyOf(enhanced, config) ==
  [kind |-> "key",
   value |-> Field(config, "queryKey", enhanced.path)]

\* { ...restOfConfig, queryKey, queryFn } of the React and the Vue adapter
enhanceEndpointQueryOptions(enhanced, config) ==
  spread(RestOf(config, {"input", "urlParams", "queryKey"}),
         ("queryKey" :> queryKeyOf(enhanced, config))
           @@ ("queryFn" :> queryFnClosure(enhanced, config)))

\* { queryKey, queryFn, ...rest } of the query-only adapter
enhanceEndpointWithQueryQueryOptions(enhanced, config) ==
  spread(("queryKey" :> queryKeyOf(enhanced, config))
           @@ ("queryFn" :> queryFnClosure(enhanced, config)),
         RestOf(config, {"input", "urlParams", "queryKey"}))

queryOptions(enhanced, config) ==
  IF enhanced.adapter = "query"
  THEN enhanceEndpointWithQueryQueryOptions(enhanced, config)
  ELSE enhanceEndpointQueryOptions(enhanced, config)

\* { ...tanstackMutationOptions, mutationFn } of every adapter
mutationOptions(enhanced, config) ==
  spread(RestOf(config, {"urlParams"}),
         "mutationFn" :> mutationFnClosure(enhanced, config))

\* api.<p>.queryOptions(config)
QueryOptions(p, config) ==
  /\ IsSet(tanstack)
  /\ LET target == Lookup(Get(tanstack).api, p)
     IN /\ target.kind = "enhanced"
        /\ "queryOptions" \in target.own
        /\ optionsMade' = Some([fn |-> "queryOptions", path |-> p,
                                config |-> config,
                                value |-> queryOptions(target, config)])
  /\ UNCHANGED <<options, endpoint, calls, router, api, tanstack, key>>

\* api.<p>.mutationOptions(config)
MutationOptions(p, config) ==
  /\ IsSet(tanstack)
  /\ LET target == Lookup(Get(tanstack).api, p)
     IN /\ target.kind = "enhanced"
        /\ "mutationOptions" \in target.own
        /\ optionsMade' = Some([fn |-> "mutationOptions", path |-> p,
                                config |-> config,
                                value |-> mutationOptions(target, config)])
  /\ UNCHANGED <<options, endpoint, calls, router, api, tanstack, key>>

(***************************************************************************)
(* The environment: what callers pass, what the producer, the transport    *)
(* and the validators do.                                                  *)
(***************************************************************************)
CallIds == 1..MaxCalls

BaseUrl == <<"h", "/">>
UsersPath == <<"/", "u">>

ApiKeyHeaders == [k \in {"X-API-Key"} |-> "test-key"]
TokenHeaders == [k \in {"Authorization"} |-> "Bearer t1"]

StaticHeaders(h) == [kind |-> "object", value |-> h]
ProducerHeaders == [kind |-> "function", value |-> NoHeaders]
AbsentHeaders == [kind |-> "absent", value |-> NoHeaders]

ProducerOutcomes ==
  {Produced(NoHeaders), Produced(TokenHeaders),
   ProducerThrew(PlainError("no token")),
   ProducerThrew(FeziErrorWithResponse("Unauthorized", NoUrl, "none", 401))}

Response(status, contentType, body) ==
  [status |-> status, contentType |-> contentType, body |-> body]

Responses ==
  {Response(200, "application/json", BodyUser),
   Response(404, "application/json; charset=utf-8", BodyNotFound),
   Response(502, "application/json", BodyMalformed),
   Response(500, "text/plain", BodyPlain)}

TransportErrors ==
  {PlainError("Network error"),
   FeziErrorWithResponse("Service Unavailable", NoUrl, "none", 503)}

Inputs == {VUndefined, VNewUser, VBadUser, VCircular}

PageOne == <<[key |-> <<"p">>, value |-> PNumber(1)]>>

ZodRequireName == SchemaOf("requireName", "absent", "absent", "absent")
JoiAddRole == SchemaOf("absent", "addRole", "absent", "absent")
ZodRejectError == SchemaOf("rejectError", "absent", "absent", "absent")
CastRejectWithStatus == SchemaOf("absent", "absent", "absent", "rejectWithStatus")

WithSchemas(e, ins, outs) ==
  LET e1 == IF IsSet(ins) THEN input(e, Get(ins)) ELSE e
  IN IF IsSet(outs) THEN output(e1, Get(outs)) ELSE e1

IdleCalls == [c \in CallIds |-> IdleCall]

\* Clients and Endpoints that differ in their timeouts.  route() applies
\* only a truthy timeout; the builder sets any.
InitTimeouts ==
  /\ \E t \in {None, Some(0)} :
       options = APIClientNew(BaseUrl, <<>>, StaticHeaders(ApiKeyHeaders), t)
  /\ \E t \in {None, Some(0), Some(5000)} :
       LET e == route(RouteConfig(Some(UsersPath), None, None, None))
       IN endpoint = IF IsSet(t) THEN timeout(e, Get(t)) ELSE e
  /\ calls = IdleCalls
  /\ NoRouter

\* Clients and Endpoints that differ in default headers and schemas.
InitSchemas ==
  /\ \E h \in {StaticHeaders(ApiKeyHeaders), ProducerHeaders} :
       options = APIClientNew(BaseUrl, <<>>, h, None)
  /\ \E ins \in {None, Some(ZodRequireName), Some(JoiAddRole)},
        outs \in {None, Some(ZodRejectError), Some(CastRejectWithStatus)} :
       endpoint = WithSchemas(route(RouteConfig(Some(UsersPath), Some("POST"),
                                                None, None)),
                              ins, outs)
  /\ calls = IdleCalls
  /\ NoRouter

Init == InitTimeouts \/ InitSchemas

\* The (input, params) pairs callers pass to execute.
ExecuteArgs ==
  {<<in, Some(PageOne)>> : in \in Inputs} \cup {<<VUndefined, None>>}

Next ==
  \/ \E c \in DOMAIN calls, a \in ExecuteArgs : Execute(c, a[1], a[2])
  \/ \E c \in DOMAIN calls, o \in ProducerOutcomes : Prepared(c, o)
  \/ \E c \in DOMAIN calls, r \in Responses : Respond(c, r)
  \/ \E c \in DOMAIN calls, e \in TransportErrors : NetworkFail(c, e)
  \/ \E c \in DOMAIN calls : TimerFire(c)
  \/ \E c \in DOMAIN calls : AbortReject(c)
  \/ \E c \in DOMAIN calls : Decode(c)

Spec == Init /\ [][Next]_vars

\* What the event loop guarantees: a settled promise is delivered (the
\* headers producer's, the aborted fetch's) and a registered timer fires.
\* The transport owes nothing: it may never respond.
Fairness ==
  \A c \in CallIds :
    /\ WF_vars(\E o \in ProducerOutcomes : Prepared(c, o))
    /\ WF_vars(TimerFire(c))
    /\ WF_vars(AbortReject(c))

\* The Clients and Endpoints of the liveness check: every combination of
\* timeouts, and a Client whose default headers come from a producer.
InitFair ==
  \/ InitTimeouts
  \/ /\ options = APIClientNew(BaseUrl, <<>>, ProducerHeaders, None)
     /\ endpoint = route(RouteConfig(Some(UsersPath), Some("POST"), None, None))
     /\ calls = IdleCalls
     /\ NoRouter

FairSpec == InitFair /\ [][Next]_vars /\ Fairness

(***************************************************************************)
(* The requests built: Clients and Endpoints that differ in method and     *)
(* header layers, called with every kind of input, up to the transport     *)
(* call.                                                                   *)
(***************************************************************************)
\* client default headers that also set Content-Type
ClientHeaders == ("X-API-Key" :> "test-key") @@ ("Content-Type" :> "text/plain")
\* endpoint headers that repeat a client key and add one of their own
RequestHeaders ==
  ("X-API-Key" :> "request-key") @@ ("X-Request-Specific" :> "value")
\* endpoint headers that repeat the built-in key, in both spellings
OverrideHeaders ==
  ("Content-Type" :> "text/csv") @@ ("content-type" :> "text/xml")
     @@ ("Authorization" :> "Bearer r")

Methods == {None, Some("GET"), Some("HEAD"), Some("POST"), Some("DELETE")}

\* a validator that reports what is wrong instead of returning a value
JoiDropValue == SchemaOf("absent", "dropValue", "absent", "absent")

AnyInputs ==
  {VUndefined, VNull, VZero, VFalse, VEmptyString, VNewUser, VBadUser,
   VCircular, VFunction}

OptionsProducerOutcomes == ProducerOutcomes \cup {Produced(ClientHeaders)}

InitOptions ==
  /\ \E h \in {AbsentHeaders, StaticHeaders(ApiKeyHeaders),
                StaticHeaders(ClientHeaders), ProducerHeaders} :
       options = APIClientNew(BaseUrl, <<>>, h, None)
  /\ \E m \in Methods,
        h \in {None, Some(RequestHeaders), Some(OverrideHeaders)},
        ins \in {None, Some(JoiAddRole), Some(JoiDropValue),
                 Some(ZodRequireName)} :
       endpoint = WithSchemas(route(RouteConfig(Some(UsersPath), m, h, None)),
                              ins, None)
  /\ calls = IdleCalls
  /\ NoRouter

NextOptions ==
  \/ \E c \in DOMAIN calls, in \in AnyInputs : Execute(c, in, None)
  \/ \E c \in DOMAIN calls, o \in OptionsProducerOutcomes : Prepared(c, o)

SpecOptions == InitOptions /\ [][NextOptions]_vars

(***************************************************************************)
(* The URLs built: every params mapping of up to MaxParams entries.        *)
(***************************************************************************)
ParamKeys == {<<"p">>, <<"f">>, <<"s">>, <<"a", "&">>}

ParamValues ==
  {PNumber(1), PNumber(0), PBoolean(FALSE), PString(<<"a", " ">>), PNull,
   PUndefined}

\* Object.entries(params) of the mappings with n entries: no key twice
Entries(n) ==
  {e \in [1..n -> [key : ParamKeys, value : ParamValues]] :
     \A i, j \in 1..n : e[i].key = e[j].key => i = j}

ParamsArgs == {None} \cup {Some(e) : e \in UNION {Entries(n) : n \in 0..MaxParams}}

\* The URL of a call depends on nothing another call does: one call.
InitUrl ==
  /\ \E u \in {<<"h">>, <<"h", "/">>} :
       options = APIClientNew(u, <<>>, StaticHeaders(ApiKeyHeaders), None)
  /\ \E p \in {None, Some(UsersPath)} :
       endpoint = route(RouteConfig(p, Some("GET"), None, None))
  /\ calls = [c \in {1} |-> IdleCall]
  /\ NoRouter

NextUrl ==
  \/ \E c \in DOMAIN calls :
       /\ calls[c].pc = "idle"
       /\ \E params \in ParamsArgs : Execute(c, VUndefined, params)
  \/ \E c \in DOMAIN calls : Prepared(c, Produced(NoHeaders))

SpecUrl == InitUrl /\ [][NextUrl]_vars

(***************************************************************************)
(* The paths joined: base URLs with and without trailing slashes, base     *)
(* paths and route paths with and without a leading slash.                 *)
(***************************************************************************)
BaseUrls == {<<"h">>, <<"h", "/">>, <<"h", "/", "/">>}
BasePaths == {<<>>, <<"v">>, <<"/", "v">>}
RoutePaths == {<<>>, <<"u">>, <<"/", "u">>, <<"u", "/", "w">>}

InitPath ==
  /\ \E u \in BaseUrls, b \in BasePaths :
       options = APIClientNew(u, b, AbsentHeaders, None)
  /\ \E p \in {None} \cup {Some(r) : r \in RoutePaths} :
       LET e == route(RouteConfig(None, Some("GET"), None, None))
       IN endpoint = IF IsSet(p) THEN path(e, Get(p)) ELSE e
  /\ calls = IdleCalls
  /\ NoRouter

NextPath ==
  \/ \E c \in DOMAIN calls, params \in {None, Some(PageOne)} :
       Execute(c, VUndefined, params)
  \/ \E c \in DOMAIN calls : Prepared(c, Produced(NoHeaders))

SpecPath == InitPath /\ [][NextPath]_vars

(***************************************************************************)
(* The schemas applied: input schemas with every combination of the four   *)
(* capabilities, each capability with a behaviour that tells it from the   *)
(* others.                                                                 *)
(***************************************************************************)
Schemas ==
  {SchemaOf(p, v, s, k) : p \in {"absent", "identity", "requireName"},
                          v \in {"absent", "addRole"},
                          s \in {"absent", "dropValue"},
                          k \in {"absent", "rejectError", "addRole"}}

SchemaInputs == {VNewUser, VBadUser, VNotFound}

InitSchema ==
  /\ options = APIClientNew(BaseUrl, <<>>, AbsentHeaders, None)
  /\ \E s \in Schemas :
       endpoint = input(route(RouteConfig(Some(UsersPath), Some("POST"),
                                          None, None)), s)
  /\ calls = IdleCalls
  /\ NoRouter

NextSchema ==
  \/ \E c \in DOMAIN calls, in \in SchemaInputs : Execute(c, in, None)
  \/ \E c \in DOMAIN calls : Prepared(c, Produced(NoHeaders))

SpecSchema == InitSchema /\ [][NextSchema]_vars

(***************************************************************************)
(* The routers composed: Endpoints at depth one, two and four, beside a    *)
(* number and null.  The Endpoints of a router are built by the same       *)
(* route call: they differ in identity.                                    *)
(***************************************************************************)
FlatRouter(e) == <<Entry("getUser", EndpointObject(1, e))>>

NestedRouter(e) ==
  <<Entry("users", ObjectOf(<<Entry("create", EndpointObject(1, e)),
                              Entry("getById", EndpointObject(2, e))>>)),
    Entry("posts", ObjectOf(<<Entry("list", EndpointObject(3, e))>>))>>

DeepRouter(e) ==
  <<Entry("api", ObjectOf(<<
      Entry("v1", ObjectOf(<<
        Entry("users", ObjectOf(<<Entry("get", EndpointObject(1, e)),
                                  Entry("count", NumberOf(100))>>))>>)),
      Entry("none", NullValue),
      Entry("name", StringOf("v1"))>>)),
    Entry("health", EndpointObject(2, e))>>

Routers(e) == {FlatRouter(e), NestedRouter(e), DeepRouter(e)}

\* the key paths the callers of a composed API use
KeyPaths ==
  {<<"getUser">>, <<"users", "create">>, <<"users", "getById">>,
   <<"posts", "list">>, <<"api", "v1", "users", "get">>, <<"health">>}

RouterResponses ==
  {Response(200, "application/json", BodyUser),
   Response(404, "application/json; charset=utf-8", BodyNotFound)}

InitRouter ==
  /\ options = APIClientNew(BaseUrl, <<>>, StaticHeaders(ApiKeyHeaders), Some(0))
  /\ \E e \in {route(RouteConfig(Some(UsersPath), None, None, None)),
               input(route(RouteConfig(Some(UsersPath), Some("POST"), None, None)),
                     ZodRequireName)} :
       /\ endpoint = e
       /\ router \in Routers(e)
  /\ calls = IdleCalls
  /\ api = None
  /\ tanstack = None
  /\ key = None
  /\ optionsMade = None

NextRouter ==
  \/ CreateClientAPI
  \/ \E c \in DOMAIN calls, p \in KeyPaths, in \in {VUndefined, VNewUser, VBadUser},
        params \in {None, Some(PageOne)} : ApiCall(c, p, in, params)
  \/ \E c \in DOMAIN calls : Prepared(c, Produced(NoHeaders))
  \/ \E c \in DOMAIN calls, r \in RouterResponses : Respond(c, r)
  \/ \E c \in DOMAIN calls, e \in TransportErrors : NetworkFail(c, e)
  \/ \E c \in DOMAIN calls : Decode(c)

SpecRouter == InitRouter /\ [][NextRouter]_vars

(***************************************************************************)
(* The routers adapted for TanStack: each adapter applied to routers that  *)
(* hold Endpoints at several depths beside a number and null, and the      *)
(* query and mutation functions of the result called, one call at a time.  *)
(***************************************************************************)
CountRouter(e) ==
  <<Entry("users", ObjectOf(<<Entry("getAll", EndpointObject(1, e)),
                              Entry("count", NumberOf(100))>>))>>

AdaptedRouters(e) == {NestedRouter(e), CountRouter(e), DeepRouter(e)}

AdaptedKeyPaths ==
  {<<"users", "create">>, <<"posts", "list">>, <<"users", "getAll">>,
   <<"api", "v1", "users", "get">>, <<"health">>}

Configs == {NoConfig, ConfigOf(VNewUser, Some(PageOne)), ConfigOf(VBadUser, None)}

Variables == {VNewUser, VBadUser}

AdaptedResponses ==
  {Response(200, "application/json", BodyUser),
   Response(400, "application/json", BodyCreateFailed),
   Response(404, "application/json", BodyNotFound)}

AdaptedTransportErrors ==
  {PlainError("Network error"), ThrownValue("offline")}

InitTanStack ==
  /\ options = APIClientNew(BaseUrl, <<>>, StaticHeaders(ApiKeyHeaders), Some(0))
  /\ \E e \in {route(RouteConfig(Some(UsersPath), None, None, None)),
               input(route(RouteConfig(Some(UsersPath), Some("POST"), None, None)),
                     ZodRequireName),
               output(route(RouteConfig(Some(UsersPath), Some("POST"), None, None)),
                      CastRejectWithStatus)} :
       /\ endpoint = e
       /\ router \in AdaptedRouters(e)
  /\ calls = [c \in {1} |-> IdleCall]
  /\ api = None
  /\ tanstack = None
  /\ key = None
  /\ optionsMade = None

NextTanStack ==
  \/ \E adapter \in Adapters : CreateTanStackAPI(adapter)
  \/ \E c \in DOMAIN calls, p \in AdaptedKeyPaths, config \in Configs :
        QueryFn(c, p, config)
  \/ \E c \in DOMAIN calls, p \in AdaptedKeyPaths, config \in Configs,
        variables \in Variables : MutationFn(c, p, config, variables)
  \/ \E c \in DOMAIN calls : Prepared(c, Produced(NoHeaders))
  \/ \E c \in DOMAIN calls, r \in AdaptedResponses : Respond(c, r)
  \/ \E c \in DOMAIN calls, e \in AdaptedTransportErrors : NetworkFail(c, e)
  \/ \E c \in DOMAIN calls : Decode(c)
  \/ \E c \in DOMAIN calls : FnSettle(c)

SpecTanStack == InitTanStack /\ [][NextTanStack]_vars

(***************************************************************************)
(* The query keys asked for: every params mapping of up to MaxKeyParams    *)
(* entries, in every order of its keys.                                    *)
(***************************************************************************)
KeyNames == {<<"a">>, <<"b">>, <<"a", "a">>, <<"B">>}

KeyValues == {PNumber(1), PNumber(2)}

\* the mappings with n entries, in the order their keys were added
KeyEntries(n) ==
  {e \in [1..n -> [key : KeyNames, value : KeyValues]] :
     \A i, j \in 1..n : e[i].key = e[j].key => i = j}

KeyArgs == {None} \cup {Some(e) : e \in UNION {KeyEntries(n) : n \in 0..MaxKeyParams}}

InitKeys ==
  /\ options = APIClientNew(BaseUrl, <<>>, StaticHeaders(ApiKeyHeaders), Some(0))
  /\ endpoint = route(RouteConfig(Some(UsersPath), None, None, None))
  /\ router \in AdaptedRouters(endpoint)
  /\ calls = [c \in {1} |-> IdleCall]
  /\ api = None
  /\ tanstack = None
  /\ key = None
  /\ optionsMade = None

NextKeys ==
  \/ \E adapter \in Adapters : CreateTanStackAPI(adapter)
  \/ \E p \in AdaptedKeyPaths :
       /\ IsSet(tanstack)
       /\ \E params \in KeyArgs : GetKey(p, params)

SpecKeys == InitKeys /\ [][NextKeys]_vars

(***************************************************************************)
(* The options records: configs with and without input, urlParams, a       *)
(* custom key, a hook option, and a function of the caller's own under the *)
(* name the adapter uses.                                                  *)
(***************************************************************************)
CustomKey == <<"custom", "key">>
CallerFn == [kind |-> "callerFn", value |-> "other"]

\* the mappings that take some of the given fields
Choices(fields) ==
  {[k \in names |-> fields[k]] : names \in SUBSET DOMAIN fields}

QueryConfigs ==
  Choices(("input" :> FieldOf(VNewUser))
            @@ ("urlParams" :> FieldOf(Some(PageOne)))
            @@ ("queryKey" :> FieldOf(CustomKey))
            @@ ("staleTime" :> FieldOf("5000"))
            @@ ("queryFn" :> CallerFn))

MutationConfigs ==
  Choices(("urlParams" :> FieldOf(Some(PageOne)))
            @@ ("retry" :> FieldOf("3"))
            @@ ("mutationFn" :> CallerFn))

InitMadeOptions ==
  /\ options = APIClientNew(BaseUrl, <<>>, StaticHeaders(ApiKeyHeaders), Some(0))
  /\ endpoint = route(RouteConfig(Some(UsersPath), None, None, None))
  /\ router \in AdaptedRouters(endpoint)
  /\ calls = [c \in {1} |-> IdleCall]
  /\ api = None
  /\ tanstack = None
  /\ key = None
  /\ optionsMade = None

NextMadeOptions ==
  \/ \E adapter \in Adapters : CreateTanStackAPI(adapter)
  \/ \E p \in AdaptedKeyPaths :
       /\ IsSet(tanstack)
       /\ \E config \in QueryConfigs : QueryOptions(p, config)
  \/ \E p \in AdaptedKeyPaths :
       /\ IsSet(tanstack)
       /\ \E config \in MutationConfigs : MutationOptions(p, config)

SpecMadeOptions == InitMadeOptions /\ [][NextMadeOptions]_vars

(***************************************************************************)
(* Calls in flight together: MaxCalls + 1 calls of execute on one Endpoint *)
(* of a Client whose default timeout is in effect, interleaved in every    *)
(* order.                                                                  *)
(***************************************************************************)
ConcurrentCallIds == 1..(MaxCalls + 1)

ConcurrentResponses ==
  {Response(200, "application/json", BodyUser),
   Response(404, "application/json; charset=utf-8", BodyNotFound)}

InitConcurrent ==
  /\ options = APIClientNew(BaseUrl, <<>>, StaticHeaders(ApiKeyHeaders), None)
  /\ endpoint \in {route(RouteConfig(Some(UsersPath), None, None, None)),
                   input(route(RouteConfig(Some(UsersPath), Some("POST"), None, None)),
                         JoiAddRole)}
  /\ calls = [c \in ConcurrentCallIds |-> IdleCall]
  /\ NoRouter

NextConcurrent ==
  \/ \E c \in DOMAIN calls, in \in {VUndefined, VNewUser},
        params \in {None, Some(PageOne)} : Execute(c, in, params)
  \/ \E c \in DOMAIN calls : Prepared(c, Produced(NoHeaders))
  \/ \E c \in DOMAIN calls, r \in ConcurrentResponses : Respond(c, r)
  \/ \E c \in DOMAIN calls : NetworkFail(c, PlainError("Network error"))
  \/ \E c \in DOMAIN calls : TimerFire(c)
  \/ \E c \in DOMAIN calls : AbortReject(c)
  \/ \E c \in DOMAIN calls : Decode(c)

SpecConcurrent == InitConcurrent /\ [][NextConcurrent]_vars

(***************************************************************************)
(* The Endpoint rebuilt while a request is in flight: one call of execute, *)
(* and builder operations at every point of it.                            *)
(***************************************************************************)
OtherPath == <<"/", "w">>

BuilderPaths == {UsersPath, OtherPath}
BuilderMethods == {"POST", "GET"}
BuilderHeaders == {RequestHeaders, OverrideHeaders}
BuilderTimeouts == {0, 5000}
BuilderInputSchemas == {ZodRequireName}
BuilderOutputSchemas == {ZodRejectError}

BuilderResponses ==
  {Response(200, "application/json", BodyUser),
   Response(404, "application/json", BodyNotFound)}

InitBuilders ==
  /\ options = APIClientNew(BaseUrl, <<>>, StaticHeaders(ApiKeyHeaders), None)
  /\ endpoint = route(RouteConfig(Some(UsersPath), None, None, None))
  /\ calls = [c \in {1} |-> IdleCall]
  /\ NoRouter

NextBuilders ==
  \/ \E p \in BuilderPaths : Path(p)
  \/ \E m \in BuilderMethods : Method(m)
  \/ \E h \in BuilderHeaders : Headers(h)
  \/ \E t \in BuilderTimeouts : Timeout(t)
  \/ \E schema \in BuilderInputSchemas : Input(schema)
  \/ \E schema \in BuilderOutputSchemas : Output(schema)
  \/ \E c \in DOMAIN calls, in \in {VNewUser, VBadUser},
        params \in {None, Some(PageOne)} : Execute(c, in, params)
  \/ \E c \in DOMAIN calls : Prepared(c, Produced(NoHeaders))
  \/ \E c \in DOMAIN calls, r \in BuilderResponses : Respond(c, r)
  \/ \E c \in DOMAIN calls : NetworkFail(c, PlainError("Network error"))
  \/ \E c \in DOMAIN calls : TimerFire(c)
  \/ \E c \in DOMAIN calls : AbortReject(c)
  \/ \E c \in DOMAIN calls : Decode(c)

SpecBuilders == InitBuilders /\ [][NextBuilders]_vars

\* The configurations callers pass to route(): each field absent, falsy or
\* truthy.
RouteConfigs ==
  {RouteConfig(p, m, h, t) :
     p \in {None, Some(<<>>), Some(UsersPath)},
     m \in {None, Some("POST")},
     h \in {None, Some(RequestHeaders)},
     t \in {None, Some(0), Some(5000)}}

InitRoute ==
  /\ options = APIClientNew(BaseUrl, <<>>, StaticHeaders(ApiKeyHeaders), None)
  /\ endpoint = EndpointNew
  /\ calls = [c \in {1} |-> IdleCall]
  /\ NoRouter

NextRoute ==
  \/ \E config \in RouteConfigs : Route(config)
  \/ \E c \in DOMAIN calls, in \in {VNewUser, VUndefined} :
       Execute(c, in, None)
  \/ \E c \in DOMAIN calls : Prepared(c, Produced(NoHeaders))
  \/ \E c \in DOMAIN calls, r \in BuilderResponses : Respond(c, r)
  \/ \E c \in DOMAIN calls : NetworkFail(c, PlainError("Network error"))
  \/ \E c \in DOMAIN calls : TimerFire(c)
  \/ \E c \in DOMAIN calls : AbortReject(c)
  \/ \E c \in DOMAIN calls : Decode(c)

SpecRoute == InitRoute /\ [][NextRoute]_vars

(***************************************************************************)
(* A Client whose default headers are a producer, whose value changes      *)
(* between invocations, and MaxCalls + 1 calls of execute in flight        *)
(* together.                                                               *)
(***************************************************************************)
RenewedTokenHeaders == [k \in {"Authorization"} |-> "Bearer t2"]

RenewingProducerOutcomes ==
  {Produced(TokenHeaders), Produced(RenewedTokenHeaders),
   ProducerThrew(PlainError("no token"))}

InitProducer ==
  /\ options = APIClientNew(BaseUrl, <<>>, ProducerHeaders, Some(0))
  /\ endpoint \in
       {route(RouteConfig(Some(UsersPath), None, Some(RequestHeaders), None)),
        input(route(RouteConfig(Some(UsersPath), Some("POST"), None, None)),
              ZodRequireName)}
  /\ calls = [c \in ConcurrentCallIds |-> IdleCall]
  /\ NoRouter

NextProducer ==
  \/ \E c \in DOMAIN calls, in \in {VNewUser, VBadUser} : Execute(c, in, None)
  \/ \E c \in DOMAIN calls, o \in RenewingProducerOutcomes : Prepared(c, o)
  \/ \E c \in DOMAIN calls :
       Respond(c, Response(200, "application/json", BodyUser))
  \/ \E c \in DOMAIN calls : NetworkFail(c, PlainError("Network error"))
  \/ \E c \in DOMAIN calls : Decode(c)

SpecProducer == InitProducer /\ [][NextProducer]_vars

(***************************************************************************)
(* What the claims speak of.                                               *)
(***************************************************************************)
\* the capability validateWithSchema is to select: the first one present
SelectedCapability(schema) ==
  IF schema.parse # "absent" THEN "parse"
  ELSE IF schema.validate # "absent" THEN "validate"
  ELSE IF schema.validateSync # "absent" THEN "validateSync"
  ELSE IF schema.cast # "absent" THEN "cast"
  ELSE "none"

\* what the validator function behind the selected capability does with data
SelectedRun(schema, data) ==
  IF SelectedCapability(schema) = "none" THEN Returned(data)
  ELSE Run(schema[SelectedCapability(schema)], data)

\* a content type that names JSON
NamesJson(contentType) ==
  contentType \in {"application/json", "application/json; charset=utf-8"}

\* the body of response r can be decoded
Decodable(r) == NamesJson(r.contentType) => r.body \in {BodyUser, BodyNewUser, BodyNotFound}

\* what the body of response r decodes to
DecodedBody(r) ==
  IF NamesJson(r.contentType)
  THEN CASE r.body = BodyUser -> VUser
         [] r.body = BodyNewUser -> VNewUser
         [] r.body = BodyNotFound -> VNotFound
         [] OTHER -> VUndefined
  ELSE r.body

\* the status an exception carries, or the sentinel when it carries none
StatusCarried(e) == IF e.kind = "FeziError" /\ e.hasStatus THEN e.status ELSE 500

IsErrorRecord(result) == result.data = VNull /\ result.error.kind = "FeziError"

ThrownAt(call, stages) == IsSet(call.thrown) /\ Get(call.thrown).stage \in stages

(***************************************************************************)
(* C1.  A call of Endpoint.execute whose input validation did not throw    *)
(* never raises: an exception raised while the request is prepared (by the *)
(* default-headers producer, by JSON.stringify), by the transport, by the  *)
(* abort, by the decoding of the body or by the output schema ends the     *)
(* call with the record {data: null, error, status}, where status is       *)
(* error.status when the error carries a number and 500 otherwise.         *)
(***************************************************************************)
C1_ExecuteNeverRaises ==
  \A c \in DOMAIN calls :
    LET call == calls[c]
    IN /\ call.pc = "raised" => ThrownAt(call, {"input"})
       /\ (IsSet(call.thrown) /\ ~ThrownAt(call, {"input"})) =>
            /\ call.pc = "returned"
            /\ ~IsSet(call.raised)
            /\ call.result.data = VNull
            /\ call.result.error.kind = "FeziError"
            /\ call.result.status =
                 IF call.result.error.hasStatus THEN call.result.error.status
                 ELSE 500

\* the producer threw a FeziError that carries 401, and the record reports 401
C1_Witness ==
  \E c \in DOMAIN calls :
    /\ ThrownAt(calls[c], {"producer"})
    /\ calls[c].pc = "returned"
    /\ calls[c].result.status = 401

(***************************************************************************)
(* C2.  When an input schema is set and its selected capability throws on  *)
(* the input given, Endpoint.execute raises that exception to its caller,  *)
(* returns no record, and issues no transport call.                        *)
(***************************************************************************)
C2_InputValidationRaises ==
  \A c \in DOMAIN calls :
    LET call == calls[c]
    IN (/\ call.pc # "idle"
        /\ IsSet(call.inputSchema)
        /\ Truthy(call.input)
        /\ SelectedRun(Get(call.inputSchema), call.input).threw) =>
         /\ call.pc = "raised"
         /\ call.raised = Some(SelectedRun(Get(call.inputSchema), call.input).error)
         /\ call.result = NoResult
         /\ call.fetches = 0
         /\ ~IsSet(call.sent)

\* the input without a name was rejected by the schema that requires one
C2_Witness ==
  \E c \in DOMAIN calls :
    /\ calls[c].pc = "raised"
    /\ calls[c].input = VBadUser
    /\ Get(calls[c].raised).message = "Name is required"

(***************************************************************************)
(* C3 as stated.  For every HTTP response the transport delivers, whatever *)
(* its status code, Endpoint.execute on an Endpoint with no output schema  *)
(* returns {data: decoded body, error: null, status: the HTTP status}.     *)
(***************************************************************************)
C3_EveryResponseIsData ==
  \A c \in DOMAIN calls :
    LET call == calls[c]
    IN (call.pc = "returned" /\ IsSet(call.response) /\ ~IsSet(endpoint.outputSchema)) =>
         /\ call.result.error = NullError
         /\ call.result.status = Get(call.response).status
         /\ call.result.data = DecodedBody(Get(call.response))

(***************************************************************************)
(* C3 amended.  For every HTTP response the transport delivers whose body  *)
(* is read and decoded without failure, whatever its status code,          *)
(* Endpoint.execute on an Endpoint with no output schema returns {data:    *)
(* decoded body, error: null, status: the HTTP status}; a response whose   *)
(* body does not decode, or whose read the timeout aborts, ends in an      *)
(* error record.                                                           *)
(***************************************************************************)
C3_DecodedResponseIsData ==
  \A c \in DOMAIN calls :
    LET call == calls[c]
    IN (call.pc = "returned" /\ IsSet(call.response) /\ ~IsSet(endpoint.outputSchema)) =>
         IF Decodable(Get(call.response)) /\ ~call.aborted
         THEN /\ call.result.error = NullError
              /\ call.result.status = Get(call.response).status
              /\ call.result.data = DecodedBody(Get(call.response))
         ELSE IsErrorRecord(call.result)

\* the 404 with the JSON error payload came back as data
C3_Witness ==
  \E c \in DOMAIN calls :
    /\ calls[c].pc = "returned"
    /\ ~IsSet(endpoint.outputSchema)
    /\ calls[c].result = [data |-> VNotFound, error |-> NullError, status |-> 404]

(***************************************************************************)
(* C4 as stated.  In every record Endpoint.execute returns, status is the  *)
(* HTTP status of the response whenever a response was received, and is    *)
(* the sentinel 500 only for failures before any response was received.    *)
(***************************************************************************)
C4_StatusIsHttpStatus ==
  \A c \in DOMAIN calls :
    LET call == calls[c]
    IN call.pc = "returned" =>
         /\ IsSet(call.response) => call.result.status = Get(call.response).status
         /\ (call.result.error # NullError /\ call.result.status = 500) =>
              ~IsSet(call.response)

(***************************************************************************)
(* C4 amended.  In every record Endpoint.execute returns with error null,  *)
(* a response was received and status is its HTTP status; in every error   *)
(* record, whether the failure came before a response was received or      *)
(* after it (a body that does not decode, an abort while reading, an       *)
(* output schema that rejects), status is 500, unless the exception caught *)
(* is a FeziError that carries its own status, which is then reported.     *)
(***************************************************************************)
C4_StatusOfRecord ==
  \A c \in DOMAIN calls :
    LET call == calls[c]
    IN call.pc = "returned" =>
         /\ call.result.error = NullError =>
              /\ IsSet(call.response)
              /\ call.result.status = Get(call.response).status
              /\ ~IsSet(call.thrown)
         /\ call.result.error # NullError =>
              /\ IsSet(call.thrown)
              /\ call.result.status =
                   IF ThrownAt(call, {"producer", "stringify", "output"})
                   THEN StatusCarried(Get(call.thrown).error)
                   ELSE 500

\* a 404 was received, the output schema rejected it, and status is 500
C4_Witness ==
  \E c \in DOMAIN calls :
    /\ calls[c].pc = "returned"
    /\ IsSet(calls[c].response)
    /\ Get(calls[c].response).status = 404
    /\ ThrownAt(calls[c], {"output"})
    /\ calls[c].result.status = 500

(***************************************************************************)
(* C5 as stated.  When the transport delivers a response and the output    *)
(* schema throws on the decoded body, Endpoint.execute returns {data:      *)
(* null, status: 500, error} where error.message is the message of the     *)
(* exception the schema threw.                                             *)
(***************************************************************************)
C5_OutputRejectionIs500 ==
  \A c \in DOMAIN calls :
    LET call == calls[c]
    IN (/\ call.pc = "returned"
        /\ IsSet(call.response)
        /\ IsSet(call.outputSchema)
        /\ SelectedRun(Get(call.outputSchema), DecodedBody(Get(call.response))).threw) =>
         /\ call.result.data = VNull
         /\ call.result.status = 500
         /\ call.result.error.message =
              SelectedRun(Get(call.outputSchema),
                          DecodedBody(Get(call.response))).error.message

(***************************************************************************)
(* C5 amended.  When the transport delivers a response and the output      *)
(* schema throws on the decoded body, Endpoint.execute returns {data:      *)
(* null, status, error} where error.message is the message of the          *)
(* exception the schema threw, and status is 500 unless that exception is  *)
(* a FeziError carrying a status of its own, which is then the status.     *)
(***************************************************************************)
C5_OutputRejection ==
  \A c \in DOMAIN calls :
    LET call == calls[c]
    IN (/\ call.pc = "returned"
        /\ IsSet(call.response)
        /\ IsSet(call.outputSchema)
        /\ SelectedRun(Get(call.outputSchema), DecodedBody(Get(call.response))).threw) =>
         LET e == SelectedRun(Get(call.outputSchema),
                              DecodedBody(Get(call.response))).error
         IN /\ call.result.data = VNull
            /\ call.result.error.kind = "FeziError"
            /\ call.result.error.message = e.message
            /\ call.result.status = StatusCarried(e)

\* the 404 payload was rejected by parse with the payload's own message
C5_Witness ==
  \E c \in DOMAIN calls :
    /\ calls[c].pc = "returned"
    /\ IsSet(calls[c].response)
    /\ Get(calls[c].response).status = 404
    /\ calls[c].outputSchema = Some(createZodSchema(ZodRejectError))
    /\ calls[c].result.data = VNull
    /\ calls[c].result.status = 500
    /\ calls[c].result.error.message = "Not found"

(***************************************************************************)
(* C6.  When the transport rejects with an exception, Endpoint.execute     *)
(* returns {data: null, status: 500, error} where error.message is the     *)
(* message of that exception and error.url is the URL the transport was    *)
(* called with: the normalized base URL, the path and the query string.    *)
(***************************************************************************)
C6_TransportRejection ==
  \A c \in DOMAIN calls :
    LET call == calls[c]
    IN ThrownAt(call, {"transport"}) =>
         /\ call.pc = "returned"
         /\ call.result.data = VNull
         /\ call.result.status = 500
         /\ call.result.error.kind = "FeziError"
         /\ call.result.error.message = Get(call.thrown).error.message
         /\ call.result.error.url = Get(call.sent).url
         /\ call.result.error.url =
              <<"h", "/", "u">> \o
              (IF IsSet(call.params) THEN <<"?", "p", "=", "1">> ELSE <<>>)

\* the network error came back with the full URL of the request
C6_Witness ==
  \E c \in DOMAIN calls :
    /\ ThrownAt(calls[c], {"transport"})
    /\ calls[c].result.error.message = "Network error"
    /\ calls[c].result.error.url = <<"h", "/", "u", "?", "p", "=", "1">>
    /\ calls[c].result.status = 500

\* a timeout is in effect for the request of this call
TimeoutInEffect(call) ==
  /\ call.pc \in {"preparing", "fetching", "decoding"}
  /\ LET config == Get(call.config)
     IN (IF IsSet(config.timeout) THEN Get(config.timeout) ELSE options.timeout) # 0

(***************************************************************************)
(* C7.  When a timeout is in effect for a request, the Endpoint.execute    *)
(* call eventually completes: the transport responds first, or the timer   *)
(* fires, the transport operation in flight is aborted, and the call       *)
(* returns an error record (data null, an error whose message is the       *)
(* abort's, status 500) instead of staying pending.                        *)
(***************************************************************************)
C7_TimeoutCompletes ==
  /\ \A c \in CallIds :
       [](TimeoutInEffect(calls[c]) => <>(calls[c].pc = "returned"))
  /\ [](\A c \in CallIds :
          ThrownAt(calls[c], {"abort"}) =>
            /\ calls[c].pc = "returned"
            /\ calls[c].timer = "fired"
            /\ calls[c].result.data = VNull
            /\ calls[c].result.error.kind = "FeziError"
            /\ calls[c].result.error.message = AbortError.message
            /\ calls[c].result.status = 500)

\* the timer fired while the request was in flight and the call returned the
\* abort as an error record
C7_Witness ==
  \E c \in DOMAIN calls :
    /\ calls[c].pc = "returned"
    /\ calls[c].timer = "fired"
    /\ ~IsSet(calls[c].response)
    /\ calls[c].result.error.message = "This operation was aborted"
    /\ calls[c].result.status = 500

\* what Endpoint.execute is to hand on as the body: the validator's result
\* when a validator is set and applied, else the input
ValidatedInput(call) ==
  IF Truthy(call.input) /\ IsSet(call.inputSchema)
  THEN SelectedRun(Get(call.inputSchema), call.input).value
  ELSE call.input

\* the configured method, or GET when none is configured
EffectiveMethod ==
  IF IsSet(endpoint.config.method) THEN Get(endpoint.config.method) ELSE "GET"

\* the calls whose request was handed to the transport
Sent == {c \in DOMAIN calls : IsSet(calls[c].sent)}

ClientLayer(call) ==
  CASE options.headers.kind = "function" -> Get(call.produced)
    [] options.headers.kind = "object" -> options.headers.value
    [] OTHER -> NoHeaders

\* the endpoint-level layer
RequestLayer ==
  IF IsSet(endpoint.config.headers) THEN Get(endpoint.config.headers)
  ELSE NoHeaders

(***************************************************************************)
(* C9.  For every request handed to the transport, the headers sent have   *)
(* exactly the keys of the three layers (the built-in Content-Type, the    *)
(* client's default headers, the endpoint's headers), and each key has     *)
(* the endpoint's value if the endpoint sets it, else the client's value   *)
(* if the client sets it, else the built-in application/json.              *)
(***************************************************************************)
C9_HeaderLayers ==
  \A c \in Sent :
    LET sentHeaders == Get(calls[c].sent).options.headers
        client == ClientLayer(calls[c])
    IN /\ DOMAIN sentHeaders =
            {"Content-Type"} \cup DOMAIN client \cup DOMAIN RequestLayer
       /\ \A k \in DOMAIN sentHeaders :
            sentHeaders[k] =
              IF k \in DOMAIN RequestLayer THEN RequestLayer[k]
              ELSE IF k \in DOMAIN client THEN client[k]
              ELSE "application/json"

\* a request was sent whose key X-API-Key is set by client and endpoint,
\* whose Content-Type is set by the client, and whose X-Request-Specific
\* is set by the endpoint alone
C9_Witness ==
  \E c \in DOMAIN calls :
    /\ calls[c].pc = "fetching"
    /\ "X-API-Key" \in DOMAIN ClientLayer(calls[c]) \cap DOMAIN RequestLayer
    /\ ClientLayer(calls[c])["X-API-Key"] # RequestLayer["X-API-Key"]
    /\ Get(calls[c].sent).options.headers =
         ("X-API-Key" :> "request-key") @@ ("Content-Type" :> "text/plain")
           @@ ("X-Request-Specific" :> "value")

\* where ch first stands in s, or 0
FirstIndex(s, ch) ==
  IF \E i \in 1..Len(s) : s[i] = ch
  THEN CHOOSE i \in 1..Len(s) : s[i] = ch /\ \A j \in 1..(i - 1) : s[j] # ch
  ELSE 0

\* the pieces of s between the occurrences of ch
RECURSIVE SplitOn(_, _)
SplitOn(s, ch) ==
  LET i == FirstIndex(s, ch)
  IN IF i = 0 THEN <<s>>
     ELSE <<SubSeq(s, 1, i - 1)>> \o SplitOn(SubSeq(s, i + 1, Len(s)), ch)

\* the character a percent escape stands for
Unescaped(hi, lo) ==
  CASE hi = "2" /\ lo = "6" -> "&"
    [] hi = "3" /\ lo = "D" -> "="
    [] hi = "2" /\ lo = "B" -> "+"
    [] hi = "2" /\ lo = "5" -> "%"
    [] hi = "2" /\ lo = "F" -> "/"
    [] hi = "3" /\ lo = "F" -> "?"
    [] OTHER -> "?"

\* what a receiver of a form-encoded text reads
RECURSIVE FormDecoded(_)
FormDecoded(s) ==
  IF s = <<>> THEN <<>>
  ELSE IF s[1] = "+" THEN <<" ">> \o FormDecoded(Tail(s))
  ELSE IF s[1] = "%" /\ Len(s) >= 3
       THEN <<Unescaped(s[2], s[3])>> \o FormDecoded(SubSeq(s, 4, Len(s)))
  ELSE <<s[1]>> \o FormDecoded(Tail(s))

\* the entries a receiver reads from a query string
QueryEntries(query) ==
  LET parts == SplitOn(query, "&")
  IN [n \in 1..Len(parts) |->
        LET i == FirstIndex(parts[n], "=")
        IN [key |-> FormDecoded(SubSeq(parts[n], 1, i - 1)),
            value |-> FormDecoded(SubSeq(parts[n], i + 1, Len(parts[n])))]]

\* the text of a params value
Coerced(v) ==
  CASE v = PNumber(1) -> <<"1">>
    [] v = PNumber(0) -> <<"0">>
    [] v = PBoolean(FALSE) -> <<"f", "a", "l", "s", "e">>
    [] OTHER -> v.s

IsValue(e) == e.value # PNull /\ e.value # PUndefined

\* {page: 1, filter: null, sort: undefined}
ExampleParams ==
  <<[key |-> <<"p">>, value |-> PNumber(1)],
    [key |-> <<"f">>, value |-> PNull],
    [key |-> <<"s">>, value |-> PUndefined]>>

(***************************************************************************)
(* C10.  For every params mapping, the URL handed to the transport has a   *)
(* query string that reads back as exactly the entries whose value is      *)
(* neither null nor undefined, each with the text of its value, in the     *)
(* order of the mapping; when no entry remains the URL has no "?".  The    *)
(* mapping {p: 1, f: null, s: undefined} on path /u gives h/u?p=1.         *)
(***************************************************************************)
C10_QueryString ==
  \A c \in Sent :
    LET url == Get(calls[c].sent).url
        entries == IF IsSet(calls[c].params) THEN Get(calls[c].params) ELSE <<>>
        kept == SelectSeq(entries, IsValue)
        mark == FirstIndex(url, "?")
    IN /\ IF kept = <<>> THEN mark = 0
          ELSE /\ mark > 0
               /\ QueryEntries(SubSeq(url, mark + 1, Len(url))) =
                    [n \in 1..Len(kept) |->
                       [key |-> kept[n].key, value |-> Coerced(kept[n].value)]]
       /\ (entries = ExampleParams /\ endpoint.config.path = Some(<<"/", "u">>)) =>
            url = <<"h", "/", "u", "?", "p", "=", "1">>

\* the example mapping was sent as h/u?p=1
C10_Witness ==
  \E c \in DOMAIN calls :
    /\ calls[c].pc = "fetching"
    /\ calls[c].params = Some(ExampleParams)
    /\ Get(calls[c].sent).url = <<"h", "/", "u", "?", "p", "=", "1">>

\* the URL a call sent, up to its query string
UrlBeforeQuery(call) ==
  LET url == Get(call.sent).url
      mark == FirstIndex(url, "?")
  IN IF mark = 0 THEN url ELSE SubSeq(url, 1, mark - 1)

\* the base URL without one trailing slash
StrippedBase ==
  IF Len(options.url) > 0 /\ options.url[Len(options.url)] = "/"
  THEN SubSeq(options.url, 1, Len(options.url) - 1)
  ELSE options.url

\* what precedes the route path: the stripped base URL and then the base
\* path, with a leading slash
UrlPrefix ==
  StrippedBase \o
    (IF options.basePath = <<>> THEN <<>>
     ELSE IF options.basePath[1] = "/" THEN options.basePath
     ELSE <<"/">> \o options.basePath)

\* the URL the Client builds for the call when the route path is given
\* with a leading slash
UrlWithLeadingSlash(call) ==
  LET config == Get(call.config)
  IN buildUrl(options, [config EXCEPT !.path = Some(<<"/">> \o Get(config.path)),
                                      !.params = None])

\* the calls sent on a route path that does not start with "/"
SentWithoutSlash ==
  {c \in Sent : /\ IsSet(endpoint.config.path)
                /\ \/ Get(endpoint.config.path) = <<>>
                   \/ Get(endpoint.config.path)[1] # "/"}

(***************************************************************************)
(* C11, as stated.  For every base URL (no base path configured) and       *)
(* every route path that does not start with "/", the URL built is a stem  *)
(* that does not end in "/", one "/", and the path, the stem being the     *)
(* base URL without its trailing slash; and it is the URL built for the    *)
(* same path given with its leading slash.                                 *)
(***************************************************************************)
C11_OneSlashEveryBase ==
  \A c \in SentWithoutSlash :
    options.basePath = <<>> =>
      LET p == Get(endpoint.config.path)
          u == UrlBeforeQuery(calls[c])
      IN /\ u = StrippedBase \o <<"/">> \o p
         /\ ~endsWith(StrippedBase, "/")
         /\ u = UrlWithLeadingSlash(calls[c])

(***************************************************************************)
(* C11, amended.  For every base URL, base path and every non-empty route  *)
(* path that does not start with "/", the URL built is the prefix (the     *)
(* base URL without one trailing slash, then the base path with a leading  *)
(* slash), one "/", and the path; that is exactly one "/" between them     *)
(* when the base URL ends in at most one "/"; and it is the URL built for  *)
(* the same path given with its leading slash.                             *)
(***************************************************************************)
C11_OneSlashAfterPrefix ==
  \A c \in SentWithoutSlash :
    Get(endpoint.config.path) # <<>> =>
      LET p == Get(endpoint.config.path)
          u == UrlBeforeQuery(calls[c])
      IN /\ u = UrlPrefix \o <<"/">> \o p
         /\ options.url \in {<<"h">>, <<"h", "/">>} =>
              /\ u[Len(u) - Len(p)] = "/"
              /\ u[Len(u) - Len(p) - 1] # "/"
         /\ u = UrlWithLeadingSlash(calls[c])

\* a base URL with a trailing slash and a route path without a leading one
\* were joined by one slash
C11_Witness ==
  \E c \in DOMAIN calls :
    /\ calls[c].pc = "fetching"
    /\ options.url = <<"h", "/">>
    /\ options.basePath = <<>>
    /\ endpoint.config.path = Some(<<"u">>)
    /\ Get(calls[c].sent).url \in {<<"h", "/", "u">>,
                                   <<"h", "/", "u", "?", "p", "=", "1">>}

\* the calls whose truthy input met an input schema
Validated ==
  {c \in DOMAIN calls : /\ calls[c].pc # "idle"
                        /\ IsSet(calls[c].inputSchema)
                        /\ calls[c].input \notin Falsy}

(***************************************************************************)
(* C12.  When validation is requested, validateWithSchema calls at most    *)
(* one of the schema's functions: the first present of parse, validate,    *)
(* validateSync, cast, and no other; its outcome is the outcome of that    *)
(* function (the value of parse or cast, the value field of what validate  *)
(* or validateSync returns, or the exception thrown), and with no          *)
(* capability present the data comes back unchanged.                       *)
(***************************************************************************)
C12_FirstCapabilityOnly ==
  \A c \in Validated :
    LET call == calls[c]
        schema == Get(call.inputSchema)
        first == SelectedCapability(schema)
        expected == SelectedRun(schema, call.input)
    IN /\ Len(call.inputCalls) <= 1
       /\ call.inputCalls = IF first = "none" THEN <<>> ELSE <<first>>
       /\ IF expected.threw
          THEN call.pc = "raised" /\ call.raised = Some(expected.error)
          ELSE /\ call.pc # "raised"
               /\ Get(call.config).body =
                    IF first = "none" THEN call.input ELSE expected.value

\* a schema with all four capabilities was applied: parse alone was called
\* and its result, not the one validate or cast would give, was used
C12_Witness ==
  \E c \in DOMAIN calls :
    /\ calls[c].pc = "fetching"
    /\ calls[c].input = VNewUser
    /\ calls[c].inputSchema =
         Some(SchemaOf("identity", "addRole", "dropValue", "addRole"))
    /\ calls[c].inputCalls = <<"parse">>
    /\ Get(calls[c].config).body = VNewUser

\* the key paths of a tree: every path that leads to a value
RECURSIVE PathsOf(_)
PathsOf(node) ==
  UNION {LET v == node[i].value
         IN {<<node[i].key>>} \cup
            (IF v.kind = "object"
             THEN {<<node[i].key>> \o q : q \in PathsOf(v.entries)}
             ELSE {}) : i \in 1..Len(node)}

\* the keys of an object, in order
KeysOf(node) == [i \in 1..Len(node) |-> node[i].key]

IsRouted(v) == v.value.kind \in {"Endpoint", "object"}

\* the keys of an object of the router that hold an Endpoint or a mapping
RoutedKeys(node) == KeysOf(SelectSeq(node, IsRouted))

\* those keys, in the order the composed object has them
MirroredKeys(composed_, node) ==
  SelectSeq(KeysOf(composed_),
            LAMBDA k : \E i \in 1..Len(node) : node[i].key = k /\ IsRouted(node[i]))

FnCalls ==
  {c \in DOMAIN calls :
     /\ IsSet(calls[c].via)
     /\ Get(calls[c].via).kind \in {"queryFn", "mutationFn"}}

(***************************************************************************)
(* C14.  The queryFn of queryOptions(config) calls the Endpoint's execute  *)
(* once with config.input and config.urlParams, and the mutationFn of      *)
(* mutationOptions(config), called with variables, calls it once with the  *)
(* variables and config.urlParams.  When execute returned a record, the    *)
(* function throws if and only if the record's error is not null, what it  *)
(* throws is an Error with the message of the record's error, and          *)
(* otherwise it returns the record's data.                                 *)
(***************************************************************************)
C14_FnCallsExecuteAndRethrows ==
  \A c \in FnCalls :
    LET call == calls[c]
        via == Get(call.via)
        target == Lookup(Get(tanstack).before, via.path)
        outcome == Get(call.settled)
    IN /\ via.executes = 1
       /\ target.kind = "Endpoint" /\ via.target = target.id
       /\ call.input = via.input
       /\ call.params = via.params
       /\ IsSet(call.settled) /\ call.pc = "returned" =>
            /\ outcome.threw <=> call.result.error # NullError
            /\ outcome.threw =>
                 /\ outcome.error.kind \in {"Error", "FeziError"}
                 /\ outcome.error.message = call.result.error.message
            /\ ~outcome.threw => outcome.value = call.result.data

C14_Witness ==
  \E c \in FnCalls :
    /\ Get(calls[c].via).kind = "mutationFn"
    /\ calls[c].input = VNewUser
    /\ calls[c].params = Some(PageOne)
    /\ calls[c].pc = "returned"
    /\ calls[c].result.error.message = "Network error"
    /\ IsSet(calls[c].settled)
    /\ Get(calls[c].settled).threw
    /\ Get(calls[c].settled).error.message = "Network error"

(***************************************************************************)
(* C15.  The mutationFn of an endpoint enhanced by createTanStackAPI       *)
(* throws when the transport resolved with a response whose status is not  *)
(* 2xx: it never returns data for such a response.                         *)
(***************************************************************************)
C15_MutationFnThrowsOnHttpFailure ==
  \A c \in FnCalls :
    LET call == calls[c]
    IN /\ Get(call.via).kind = "mutationFn"
       /\ Get(tanstack).adapter = "react"
       /\ IsSet(call.response)
       /\ Get(call.response).status \notin 200..299
       /\ IsSet(call.settled)
       => Get(call.settled).threw

\* the keys of a params element stand in increasing order
InKeyOrder(entries) ==
  \A i \in 1..(Len(entries) - 1) : Before(entries[i].key, entries[i + 1].key)

\* the entries of a mapping, whatever their order
EntrySet(entries) == {entries[i] : i \in 1..Len(entries)}

\* the same mapping with its keys added in another order
Reordered(entries) ==
  {q \in [1..Len(entries) -> EntrySet(entries)] : EntrySet(q) = EntrySet(entries)}

EndpointsOf(node) ==
  {Lookup(node, p) : p \in {q \in PathsOf(node) : Lookup(node, q).kind = "Endpoint"}}

(***************************************************************************)
(* C17.  Enhancing a router with createTanStackAPI, with its Vue           *)
(* counterpart, or with the query-only or mutation-only variant leaves     *)
(* the router as it was: every key path of the router handed over still    *)
(* leads to the same object, and every Endpoint of it has no               *)
(* queryOptions, mutationOptions or getKey property and has the            *)
(* configuration and the schemas it was built with; calls of the           *)
(* enhanced functions change none of this.                                 *)
(***************************************************************************)
C17_EnhancementLeavesRouter ==
  IsSet(tanstack) =>
    /\ \A p \in PathsOf(Get(tanstack).before) :
         Lookup(router, p) = Lookup(Get(tanstack).before, p)
    /\ PathsOf(router) = PathsOf(Get(tanstack).before)
    /\ \A e \in EndpointsOf(router) :
         /\ e.own \cap {"queryOptions", "mutationOptions", "getKey"} = {}
         /\ e.config = endpoint.config
         /\ e.inputSchema = endpoint.inputSchema
         /\ e.outputSchema = endpoint.outputSchema

C17_Witness ==
  /\ IsSet(tanstack)
  /\ Get(tanstack).adapter = "query"
  /\ Lookup(Get(tanstack).api, <<"users", "getAll">>).kind = "enhanced"
  /\ "queryOptions" \in Lookup(Get(tanstack).api, <<"users", "getAll">>).own
  /\ Lookup(router, <<"users", "getAll">>).kind = "Endpoint"
  /\ \E c \in FnCalls : IsSet(calls[c].settled)

(***************************************************************************)
(* C18.  createTanStackQueryAPI and createTanStackMutationAPI keep the     *)
(* values of a router that are neither Endpoints nor objects: a number     *)
(* of the router is in the result at the same key path, beside the         *)
(* enhanced endpoints (users.count is 100 for the router                   *)
(* {users: {getAll: Endpoint, count: 100}}).                               *)
(***************************************************************************)
C18_OtherValuesPreserved ==
  IsSet(tanstack) /\ Get(tanstack).adapter \in {"query", "mutation"} =>
    \A p \in PathsOf(router) :
      /\ Lookup(router, p).kind = "Endpoint" =>
           Lookup(Get(tanstack).api, p).kind = "enhanced"
      /\ Lookup(router, p).kind = "number" =>
           Lookup(Get(tanstack).api, p) = Lookup(router, p)

\* the call is over: execute returned its record or raised
Completed(call) == call.pc \in {"returned", "raised"}

(***************************************************************************)
(* C19.  Each request registers at most one timeout timer, and when the    *)
(* call has completed (by a response received and decoded, by a transport  *)
(* failure, by a body that does not decode, or by the abort) no timer it   *)
(* registered is pending: a registered timer has fired or was cleared.     *)
(***************************************************************************)
C19_NoTimerLeftPending ==
  \A c \in DOMAIN calls :
    LET call == calls[c]
    IN /\ call.timers <= 1
       /\ call.timers = 0 <=> call.timer = "none"
       /\ Completed(call) => call.timer # "pending"
       /\ Completed(call) /\ call.timers = 1 => call.timer \in {"fired", "cleared"}

C19_Witness ==
  \E c \in DOMAIN calls :
    /\ calls[c].pc = "returned"
    /\ calls[c].timers = 1
    /\ calls[c].timer = "cleared"
    /\ IsSet(calls[c].thrown)
    /\ Get(calls[c].thrown).stage = "decode"

\* the URL of a call's request, from the call's own params
OwnUrl(call) ==
  <<"h", "/", "u">> \o (IF IsSet(call.params) THEN <<"?", "p", "=", "1">> ELSE <<>>)

\* the record a completed call returns, from what its own transport
\* operation did: the response it delivered, or the failure that ended it
OwnRecord(call) ==
  IF ThrownAt(call, {"transport", "abort", "decode"})
  THEN [data |-> VNull,
        error |-> FeziError(Get(call.thrown).error.message, OwnUrl(call),
                            "fetchOptions"),
        status |-> 500]
  ELSE [data |-> DecodedBody(Get(call.response)), error |-> NullError,
        status |-> Get(call.response).status]

\* every call is where its own input, params, timer and transport put it
OwnOutcome ==
  \A c \in DOMAIN calls :
    LET call == calls[c]
    IN /\ call.aborted <=> call.timer = "fired"
       /\ ThrownAt(call, {"abort"}) => call.aborted
       /\ IsSet(call.sent) => Get(call.sent).url = OwnUrl(call)
       /\ call.pc = "returned" => call.result = OwnRecord(call)

\* a step is a step of one call: it leaves every other call as it is
StepsOneCall ==
  \A c, d \in DOMAIN calls :
    calls'[c] # calls[c] /\ calls'[d] # calls[d] => c = d

(***************************************************************************)
(* C20.  In every interleaving of concurrent execute calls on one          *)
(* Endpoint, the record a call returns is the one its own params and its   *)
(* own transport outcome (the response delivered to it, its transport      *)
(* failure, its abort) determine; a call is aborted only when its own      *)
(* timer fired; and every step, the firing of a timer included, changes    *)
(* the state of one call and of no other.                                  *)
(***************************************************************************)
C20_CallsIndependent == []OwnOutcome /\ [][StepsOneCall]_vars

C20_Witness ==
  \E c, d \in DOMAIN calls :
    /\ c # d
    /\ calls[c].pc = "fetching"
    /\ calls[c].aborted
    /\ calls[d].pc = "decoding"
    /\ ~calls[d].aborted
    /\ calls[d].timer = "pending"
    /\ calls[d].input # calls[c].input

CopiedConfig(call) == Get(call.config)

\* the request of every call is built from the RouteConfig copied when
\* execute was called
RequestFromCopiedConfig ==
  \A c \in DOMAIN calls :
    LET call == calls[c]
        copied == CopiedConfig(call)
        request == Get(call.sent)
    IN IsSet(call.sent) =>
         /\ request.url =
              <<"h">> \o (IF IsSet(copied.path) THEN Get(copied.path) ELSE <<>>)
                \o (IF IsSet(call.params) THEN <<"?", "p", "=", "1">> ELSE <<>>)
         /\ request.options.method =
              (IF IsSet(copied.method) THEN Get(copied.method) ELSE "GET")
         /\ request.options.timeout =
              (IF IsSet(copied.timeout) THEN Get(copied.timeout) ELSE options.timeout)
         /\ request.options.headers =
              spread(spread("Content-Type" :> "application/json", ApiKeyHeaders),
                     IF IsSet(copied.headers) THEN Get(copied.headers) ELSE NoHeaders)

\* a step of a call leaves the Endpoint as it is, and a builder operation
\* leaves every call, the copied RouteConfig and the request sent included
ExecuteAndBuildersApart ==
  /\ calls' # calls => endpoint' = endpoint
  /\ endpoint' # endpoint => calls' = calls

(***************************************************************************)
(* C22.  Endpoint.execute never changes the Endpoint's RouteConfig or      *)
(* schemas, and the request it issues has the URL, method, headers and     *)
(* timeout of the RouteConfig as it was when execute was called: builder   *)
(* operations on the Endpoint while the request is prepared or in flight   *)
(* change nothing of that request.                                         *)
(***************************************************************************)
C22_RequestUsesConfigAtCall ==
  []RequestFromCopiedConfig /\ [][ExecuteAndBuildersApart]_vars

C22_Witness ==
  \E c \in DOMAIN calls :
    /\ calls[c].pc = "fetching"
    /\ Get(calls[c].sent).url = <<"h", "/", "u">>
    /\ Get(calls[c].sent).options.method = "GET"
    /\ Get(calls[c].sent).options.timeout = DEFAULT_TIMEOUT
    /\ endpoint.config.path = Some(OtherPath)
    /\ endpoint.config.method = Some("POST")
    /\ endpoint.config.headers = Some(OverrideHeaders)
    /\ endpoint.config.timeout = Some(0)

\* what a schema, when one is attached, makes of the data
Applied(schema, data) ==
  IF IsSet(schema) THEN SelectedRun(Get(schema), data) ELSE Returned(data)

\* the response of the call was read and decoded
ResponseDecoded(call) ==
  /\ call.pc = "returned"
  /\ IsSet(call.response)
  /\ ~ThrownAt(call, {"decode", "abort"})

\* the input was validated by the input schema the call found, the decoded
\* response by the output schema found when the response had arrived
SchemasAsFound ==
  \A c \in DOMAIN calls :
    LET call == calls[c]
        checked == Applied(call.inputSchema, call.input)
        validated == Applied(call.outputSchema, DecodedBody(Get(call.response)))
    IN /\ call.pc = "raised" <=>
            call.pc # "idle" /\ Truthy(call.input) /\ checked.threw
       /\ ResponseDecoded(call) =>
            /\ ThrownAt(call, {"output"}) <=> validated.threw
            /\ validated.threw =>
                 call.result.error.message = validated.error.message
            /\ ~validated.threw => call.result.data = validated.value

\* the input schema found is the Endpoint's when execute is called; the
\* output schema found is the Endpoint's when the response has arrived
SchemasFoundWhen ==
  \A c \in DOMAIN calls :
    /\ calls[c].pc = "idle" /\ calls'[c].pc # "idle" =>
         calls'[c].inputSchema = endpoint.inputSchema
    /\ calls[c].pc = "decoding" /\ ResponseDecoded(calls'[c]) =>
         calls'[c].outputSchema = endpoint.outputSchema

(***************************************************************************)
(* C23.  The output schema applied to a response is the one the Endpoint   *)
(* has when the response has arrived, not the one it had when execute was  *)
(* called: output(s) called while the call is in flight decides how the    *)
(* response of that call is validated.  The input schema applied is the    *)
(* one the Endpoint had when execute was called.                           *)
(***************************************************************************)
C23_OutputSchemaAtArrival == []SchemasAsFound /\ [][SchemasFoundWhen]_vars

C23_Witness ==
  \E c \in DOMAIN calls :
    /\ calls[c].pc = "returned"
    /\ calls[c].outputSchemaAtCall = None
    /\ calls[c].outputSchema = Some(createZodSchema(ZodRejectError))
    /\ ThrownAt(calls[c], {"output"})
    /\ calls[c].result.error.message = "Not found"
    /\ calls[c].input = VBadUser
    /\ calls[c].inputSchema = None
    /\ endpoint.inputSchema = Some(createZodSchema(ZodRequireName))

\* the key paths of the router that lead to a value of one of the kinds
PathsTo(kinds) == {p \in PathsOf(router) : Lookup(router, p).kind \in kinds}

(***************************************************************************)
(* C24, as stated.  createClientAPI passes through unchanged, at the same  *)
(* key path, every value of the router that is neither an Endpoint nor a   *)
(* nested mapping: a number, a string, null.                               *)
(***************************************************************************)
C24_OtherValuesPassedThrough ==
  IsSet(api) =>
    \A p \in PathsTo({"number", "string", "null"}) :
      Lookup(Get(api), p) = Lookup(router, p)

(***************************************************************************)
(* C24, amended.  createClientAPI gives the result no key for a value of   *)
(* the router that is neither an Endpoint nor of type object (a number, a  *)
(* string), and an empty mapping for null; the router keeps the value.     *)
(***************************************************************************)
C24_OtherValuesOmitted ==
  IsSet(api) =>
    /\ \A p \in PathsTo({"number", "string"}) : Lookup(Get(api), p) = Missing
    /\ \A p \in PathsTo({"null"}) : Lookup(Get(api), p) = ObjectOf(<<>>)
    /\ \A p \in PathsTo({"Endpoint"}) : Lookup(Get(api), p).kind = "function"

C24_Witness ==
  /\ IsSet(api)
  /\ Lookup(router, <<"api", "v1", "users", "count">>) = NumberOf(100)
  /\ Lookup(Get(api), <<"api", "v1", "users", "count">>) = Missing
  /\ Lookup(router, <<"api", "name">>) = StringOf("v1")
  /\ Lookup(Get(api), <<"api", "name">>) = Missing
  /\ Lookup(Get(api), <<"api", "none">>) = ObjectOf(<<>>)
  /\ Lookup(Get(api), <<"api", "v1", "users", "get">>).kind = "function"

\* the calls of a query or mutation function that threw for the error of the
\* record execute returned
FnCallsThatThrew ==
  {c \in FnCalls :
     /\ calls[c].pc = "returned"
     /\ IsSet(calls[c].settled)
     /\ Get(calls[c].settled).threw}

(***************************************************************************)
(* C25, as stated.  When the record of the Endpoint carries an error, the  *)
(* exception queryFn or mutationFn raises is a plain Error with the        *)
(* message alone: it has no url, options or status, and it is not the      *)
(* error object of the record.                                             *)
(***************************************************************************)
C25_RaisedIsPlainError ==
  \A c \in FnCallsThatThrew :
    LET raised == Get(calls[c].settled).error
    IN /\ raised.kind = "Error"
       /\ raised.message = calls[c].result.error.message
       /\ raised.url = NoUrl /\ raised.options = "none" /\ ~raised.hasStatus
       /\ raised # calls[c].result.error

(***************************************************************************)
(* C25, amended.  When the record of the Endpoint carries an error, which  *)
(* is a FeziError and so an Error, the exception queryFn or mutationFn     *)
(* raises is that error object itself, with its message, url, options and  *)
(* status, in every adapter.                                               *)
(***************************************************************************)
C25_RaisedIsRecordError ==
  \A c \in FnCallsThatThrew :
    LET raised == Get(calls[c].settled).error
    IN /\ calls[c].result.error.kind = "FeziError"
       /\ raised = calls[c].result.error
       /\ raised.url = calls[c].result.error.url
       /\ raised.hasStatus = calls[c].result.error.hasStatus
       /\ raised.status = calls[c].result.error.status

C25_Witness ==
  \E c \in FnCallsThatThrew :
    /\ Get(tanstack).adapter = "react"
    /\ Get(calls[c].via).kind = "queryFn"
    /\ Get(calls[c].settled).error.kind = "FeziError"
    /\ Get(calls[c].settled).error.message = "Unprocessable"
    /\ Get(calls[c].settled).error.hasStatus
    /\ Get(calls[c].settled).error.status = 422

\* a fresh Endpoint to which the builder of each field present in config was
\* applied with the given value
BuiltFromPresent(config) ==
  LET e0 == EndpointNew
      e1 == IF IsSet(config.path) THEN path(e0, Get(config.path)) ELSE e0
      e2 == IF IsSet(config.method) THEN method(e1, Get(config.method)) ELSE e1
      e3 == IF IsSet(config.headers) THEN headers(e2, Get(config.headers)) ELSE e2
  IN IF IsSet(config.timeout) THEN timeout(e3, Get(config.timeout)) ELSE e3

\* a request of an Endpoint without a method is a GET request
AbsentMethodIsGetWhenSent ==
  \A c \in DOMAIN calls :
    (IsSet(calls[c].sent) /\ ~IsSet(Get(calls[c].config).method)) =>
      Get(calls[c].sent).options.method = "GET"

RouteAppliesEachPresent ==
  \A config \in RouteConfigs :
    Route(config) =>
      /\ endpoint' = BuiltFromPresent(config)
      /\ ~IsSet(config.method) => ~IsSet(endpoint'.config.method)

(***************************************************************************)
(* C26.  route(config) yields the Endpoint a fresh Endpoint becomes when   *)
(* the builder of each field present in config (path, method, headers,     *)
(* timeout) is applied with the given value, a timeout of 0 and an empty   *)
(* path included; an absent method stays unset and is GET only in the      *)
(* request that is sent.                                                   *)
(***************************************************************************)
C26_RouteAppliesPresentFields ==
  []AbsentMethodIsGetWhenSent /\ [][RouteAppliesEachPresent]_vars

\* the schema a builder stores for the one it is given
Stored(schema) == IF IsZodLike(schema) THEN createZodSchema(schema) ELSE schema

\* each builder step changes its own field of the Endpoint, to the value given
EachBuilderSetsOwnField ==
  /\ \A p \in BuilderPaths :
       Path(p) => endpoint' = [endpoint EXCEPT !.config.path = Some(p)]
  /\ \A m \in BuilderMethods :
       Method(m) => endpoint' = [endpoint EXCEPT !.config.method = Some(m)]
  /\ \A h \in BuilderHeaders :
       Headers(h) => endpoint' = [endpoint EXCEPT !.config.headers = Some(h)]
  /\ \A t \in BuilderTimeouts :
       Timeout(t) => endpoint' = [endpoint EXCEPT !.config.timeout = Some(t)]
  /\ \A schema \in BuilderInputSchemas :
       Input(schema) =>
         endpoint' = [endpoint EXCEPT !.inputSchema = Some(Stored(schema))]
  /\ \A schema \in BuilderOutputSchemas :
       Output(schema) =>
         endpoint' = [endpoint EXCEPT !.outputSchema = Some(Stored(schema))]

\* the step that changed the Endpoint is a builder's, and the Endpoint differs
\* from the one before in one field
EndpointChangedByOneBuilder ==
  /\ calls' = calls /\ options' = options
  /\ \/ \E p \in BuilderPaths : Path(p)
     \/ \E m \in BuilderMethods : Method(m)
     \/ \E h \in BuilderHeaders : Headers(h)
     \/ \E t \in BuilderTimeouts : Timeout(t)
     \/ \E schema \in BuilderInputSchemas : Input(schema)
     \/ \E schema \in BuilderOutputSchemas : Output(schema)
  /\ Cardinality(
       {f \in {"path", "method", "headers", "timeout"} :
          endpoint'.config[f] # endpoint.config[f]}
       \cup {f \in {"inputSchema", "outputSchema"} :
               endpoint'[f] # endpoint[f]}) = 1

FalsyInputCalls ==
  {c \in DOMAIN calls : calls[c].pc # "idle" /\ calls[c].input \in Falsy}

PassedOn(made) ==
  IF made.fn = "queryOptions"
  THEN DOMAIN made.config \ {"input", "urlParams", "queryKey", "queryFn"}
  ELSE DOMAIN made.config \ {"urlParams", "mutationFn"}

\* the record has the adapter's function, which calls execute of the Endpoint
\* at the path
HasAdaptersFn(made) ==
  LET name == IF made.fn = "queryOptions" THEN "queryFn" ELSE "mutationFn"
      target == Lookup(router, made.path)
  IN /\ name \in DOMAIN made.value
     /\ made.value[name].kind = "closure"
     /\ made.value[name].fn = name
     /\ made.value[name].endpoint = target.id
     /\ made.value[name].params = Field(made.config, "urlParams", None)
     /\ made.fn = "queryOptions" =>
          made.value[name].input = Field(made.config, "input", VUndefined)

HasAdaptersKey(made) ==
  made.fn = "queryOptions" =>
    /\ "queryKey" \in DOMAIN made.value
    /\ made.value["queryKey"].kind = "key"
    /\ made.value["queryKey"].value =
         (IF "queryKey" \in DOMAIN made.config THEN CustomKey ELSE made.path)

(***************************************************************************)
(* C29.  In the record queryOptions(config) returns, queryFn and queryKey, *)
(* and in the record mutationOptions(config) returns, mutationFn, are the  *)
(* adapter's own values (its closure over endpoint.execute; config.queryKey *)
(* or else the key path), even when config has a queryFn or mutationFn     *)
(* field; input and urlParams are not copied into the record and every     *)
(* other field of config is in it unchanged.                               *)
(***************************************************************************)
C29_OptionsCarryAdaptersOwn ==
  IsSet(optionsMade) =>
    LET made == Get(optionsMade)
    IN /\ HasAdaptersFn(made)
       /\ HasAdaptersKey(made)
       /\ "urlParams" \notin DOMAIN made.value
       /\ made.fn = "queryOptions" => "input" \notin DOMAIN made.value
       /\ \A k \in PassedOn(made) :
            k \in DOMAIN made.value /\ made.value[k] = made.config[k]
       /\ DOMAIN made.value \subseteq
            PassedOn(made) \cup {"queryKey", "queryFn", "mutationFn"}

\* the calls of execute that reached the Client's execute
ReachedClient == {c \in DOMAIN calls : IsSet(calls[c].config)}

\* the producer was invoked once for each call that reached the Client, and
\* before its transport call; the request's headers are merged from what
\* that invocation returned
ProducerInvokedOncePerCall ==
  /\ \A c \in DOMAIN calls \ ReachedClient :
       calls[c].producerCalls = 0 /\ calls[c].fetches = 0
  /\ \A c \in ReachedClient :
       /\ calls[c].producerCalls = 1
       /\ calls[c].pc = "preparing" =>
            calls[c].fetches = 0 /\ ~IsSet(calls[c].sent)
       /\ IsSet(calls[c].sent) =>
            /\ calls[c].fetches = 1
            /\ IsSet(calls[c].produced)
            /\ Get(calls[c].sent).options.headers =
                 mergeHeaders(options, Get(calls[c].config).headers,
                              Get(calls[c].produced))
       /\ ~IsSet(calls[c].sent) => calls[c].fetches = 0

\* the step in which an invocation of the producer settles uses the value of
\* that invocation, whatever other calls were given
UsesOwnInvocation ==
  \A c \in DOMAIN calls, o \in RenewingProducerOutcomes :
    (Prepared(c, o) /\ ~o.threw /\ calls'[c].pc = "fetching") =>
      /\ calls'[c].produced = Some(o.value)
      /\ Get(calls'[c].sent).options.headers =
           mergeHeaders(options, Get(calls[c].config).headers, o.value)
      /\ \A k \in DOMAIN o.value :
           k \notin DOMAIN RequestHeaders =>
             Get(calls'[c].sent).options.headers[k] = o.value[k]

(***************************************************************************)
(* C30.  With default headers given as a producer function, the producer   *)
(* is invoked exactly once for each call of execute, after the call and    *)
(* before the transport call is issued, and the request's headers are      *)
(* merged from the value of that invocation: a value returned for an       *)
(* earlier call is not used for a later one.                               *)
(***************************************************************************)
C30_ProducerOncePerCall ==
  []ProducerInvokedOncePerCall /\ [][UsesOwnInvocation]_vars

\* two requests are out, the later one with the renewed token and the earlier
\* one with the token of its own invocation
C30_Witness ==
  \E c, d \in ReachedClient :
    /\ c # d
    /\ IsSet(calls[c].sent) /\ IsSet(calls[d].sent)
    /\ calls[c].produced = Some(TokenHeaders)
    /\ calls[d].produced = Some(RenewedTokenHeaders)
    /\ Get(calls[c].sent).options.headers["Authorization"] = "Bearer t1"
    /\ Get(calls[d].sent).options.headers["Authorization"] = "Bearer t2"

====
